---- MODULE Spec2Model ----
(***************************************************************************)
(* A model of the geographic retrieval core of krish19dixit/initrepo:      *)
(* the grid-bucketed Spatial Index (src/lib/spatial), the Query Parser,    *)
(* the Query Planner/Executor and the Query Engine facade (src/lib/query). *)
(*                                                                         *)
(* Units.  A coordinate is a pair of integers in micro-degrees (1e-6 deg), *)
(* so the index's gridSize of 0.01 deg is 10000 units.  A distance is an   *)
(* integer number of metres, a radius an integer number of kilometres.     *)
(* The clock counts whole minutes.  A confidence is an integer number of   *)
(* ten-thousandths.                                                        *)
(***************************************************************************)
EXTENDS Integers, Sequences, FiniteSets, TLC

VARIABLES
    features,     \* QuadTreeSpatialIndex.features: id -> feature
    spatialGrid,  \* QuadTreeSpatialIndex.spatialGrid: cell key -> bucket of ids
    lastOp,       \* the operation that ran last, its arguments and what it returned
    opCount,      \* number of index operations run so far
    documents,    \* GeographicVectorStore.documents, in insertion order
    embeddings,   \* GeographicVectorStore.embeddings: id -> vector
    spatialIndex, \* GeographicVectorStore.spatialIndex: cell key -> list of ids
    queryCache,   \* QueryExecutor.queryCache, in insertion order
    confidenceThreshold,  \* GeographicQueryEngine.options.confidenceThreshold
    now,          \* Date.now(), in minutes
    requests,     \* the processQuery calls in flight: slot -> where the call is
    calls         \* the processQuery calls that returned, in the order they did

indexVars == <<features, spatialGrid>>
storeVars == <<documents, embeddings, spatialIndex>>
engineVars == <<queryCache, confidenceThreshold, now, requests, calls>>
vars == <<features, spatialGrid, lastOp, opCount, documents, embeddings,
          spatialIndex, queryCache, confidenceThreshold, now, requests, calls>>

\* Bound on the number of index operations in one behaviour.
MaxOps == 4

----------------------------------------------------------------------------
(* Helpers of the model: sequences, floor/ceil division. *)

Range(s) == {s[i] : i \in 1..Len(s)}

Min(S) == CHOOSE x \in S : \A y \in S : x <= y
Max(S) == CHOOSE x \in S : \A y \in S : x >= y

\* Math.floor(a / b) and Math.ceil(a / b) for b > 0.
FloorDiv(a, b) == a \div b
CeilDiv(a, b) == -((-a) \div b)

\* floor(num * 10^digits / den), computed digit by digit so that no
\* intermediate value leaves the 32-bit range.
RECURSIVE LongDiv(_, _, _)
LongDiv(num, den, digits) ==
    IF digits = 0 THEN num \div den
    ELSE (num \div den) * (10 ^ digits) + LongDiv((num % den) * 10, den, digits - 1)

\* s without its elements that occurred earlier in s (the order a JavaScript
\* Set keeps when the elements of s are added one by one).
RECURSIVE Dedup(_)
Dedup(s) ==
    IF s = <<>> THEN <<>>
    ELSE LET front == Dedup(SubSeq(s, 1, Len(s) - 1))
             x == s[Len(s)]
         IN IF x \in Range(front) THEN front ELSE Append(front, x)

RECURSIVE Flatten(_)
Flatten(ss) == IF ss = <<>> THEN <<>> ELSE Head(ss) \o Flatten(Tail(ss))

----------------------------------------------------------------------------
(* Coordinates of the model (micro-degrees). *)

Coord(lat, lon) == [latitude |-> lat, longitude |-> lon]

SanFrancisco == Coord(37774900, -122419400)
LosAngeles   == Coord(34052200, -118243700)
\* inside the bounding box of (SanFrancisco, 100 km), 127.9 km away
Corner       == Coord(38600000, -121400000)
\* either side of the antimeridian, 11.1 km apart
AntiEast     == Coord(0, 179950000)
AntiWest     == Coord(0, -179950000)
\* a high-latitude centre and a point 199.6 km from it
HighCenter   == Coord(80000000, 0)
HighPoint    == Coord(80162000, 10395000)
\* the bounding-box centres of LineCoords and PolyCoords below
LineCenter   == Coord(37710000, -122490000)
PolyCenter   == Coord(37810000, -122290000)

LineCoords == <<Coord(37700000, -122500000), Coord(37720000, -122480000)>>
PolyCoords == << <<Coord(37800000, -122300000), Coord(37800000, -122280000),
                   Coord(37820000, -122280000), Coord(37820000, -122300000),
                   Coord(37800000, -122300000)>> >>

----------------------------------------------------------------------------
(* src/lib/spatial/utils.ts *)

\* Math.cos(toRadians(latitude)) in millionths, at the latitudes the model
\* uses as centres of a radius query.
CosMicro(lat) ==
    CASE lat = 0        -> 1000000
      [] lat = 37774900 -> 790423
      [] lat = 80000000 -> 173648

\* calculateDistance: the haversine formula R * 2 * atan2(sqrt(a), sqrt(1-a))
\* with R = 6371 km, evaluated for the coordinates of the model and rounded to
\* the metre.  The formula is symmetric in its arguments; the table lists
\* each pair once.
HaversineTable ==
    { <<SanFrancisco, SanFrancisco, 0>>,      <<SanFrancisco, LosAngeles, 559121>>,
      <<SanFrancisco, Corner, 127886>>,       <<SanFrancisco, AntiEast, 7223766>>,
      <<SanFrancisco, AntiWest, 7215575>>,    <<SanFrancisco, HighPoint, 6584787>>,
      <<SanFrancisco, LineCenter, 9519>>,     <<SanFrancisco, PolyCenter, 12022>>,
      <<AntiEast, LosAngeles, 7445145>>,      <<AntiEast, Corner, 7339836>>,
      <<AntiEast, AntiEast, 0>>,              <<AntiEast, AntiWest, 11119>>,
      <<AntiEast, HighPoint, 11083176>>,      <<AntiEast, LineCenter, 7215366>>,
      <<AntiEast, PolyCenter, 7235779>>,
      <<HighCenter, SanFrancisco, 6451177>>,  <<HighCenter, LosAngeles, 6793464>>,
      <<HighCenter, Corner, 6345276>>,        <<HighCenter, AntiEast, 11119492>>,
      <<HighCenter, AntiWest, 11119492>>,     <<HighCenter, HighPoint, 199648>>,
      <<HighCenter, LineCenter, 6459357>>,    <<HighCenter, PolyCenter, 6445366>> }

calculateDistance(coord1, coord2) ==
    LET hit == {t \in HaversineTable :
                   \/ t[1] = coord1 /\ t[2] = coord2
                   \/ t[1] = coord2 /\ t[2] = coord1}
    IN (CHOOSE t \in hit : TRUE)[3]

isPointInBounds(point, bounds) ==
    /\ point.latitude >= bounds.south
    /\ point.latitude <= bounds.north
    /\ point.longitude >= bounds.west
    /\ point.longitude <= bounds.east

\* createBoundingBox: latDelta = radiusKm / 111 degrees and
\* lonDelta = radiusKm / (111 * cos(latitude)) degrees, here rounded down to
\* the micro-degree, which decides every comparison with a coordinate of the
\* lattice as the unrounded value does.
createBoundingBox(center, radiusKm) ==
    LET latDelta == (radiusKm * 1000000) \div 111
        lonDelta == LongDiv(radiusKm * 1000000, 111 * CosMicro(center.latitude), 6)
    IN [north |-> center.latitude + latDelta,
        south |-> center.latitude - latDelta,
        east  |-> center.longitude + lonDelta,
        west  |-> center.longitude - lonDelta]

----------------------------------------------------------------------------
(* src/lib/spatial/spatial-index.ts: QuadTreeSpatialIndex *)

\* gridSize = 0.01 degrees, in micro-degrees
gridSize == 10000

Feature(id, type, coordinates) == [id |-> id, type |-> type, coordinates |-> coordinates]

AllCoords(feature) ==
    CASE feature.type = "point"      -> {feature.coordinates}
      [] feature.type = "linestring" -> Range(feature.coordinates)
      [] feature.type = "polygon"    -> UNION {Range(ring) : ring \in Range(feature.coordinates)}

getFeatureBounds(feature) ==
    LET cs == AllCoords(feature)
    IN [north |-> Max({c.latitude : c \in cs}),
        south |-> Min({c.latitude : c \in cs}),
        east  |-> Max({c.longitude : c \in cs}),
        west  |-> Min({c.longitude : c \in cs})]

getFeatureCenter(feature) ==
    IF feature.type = "point" THEN feature.coordinates
    ELSE LET bounds == getFeatureBounds(feature)
         IN Coord((bounds.north + bounds.south) \div 2, (bounds.east + bounds.west) \div 2)

\* getGridKeys with the two axes of a point's key exchanged.
getGridKeys_AxesSwapped(feature) ==
    IF feature.type = "point"
    THEN {<<FloorDiv(feature.coordinates.latitude, gridSize),
            FloorDiv(feature.coordinates.longitude, gridSize)>>}
    ELSE LET bounds == getFeatureBounds(feature)
         IN (FloorDiv(bounds.west, gridSize) .. CeilDiv(bounds.east, gridSize))
            \X (FloorDiv(bounds.south, gridSize) .. CeilDiv(bounds.north, gridSize))

\* The cell keys "x,y" of a feature, as pairs <<x, y>>.
getGridKeys(feature) ==
    IF feature.type = "point"
    THEN {<<FloorDiv(feature.coordinates.longitude, gridSize),
            FloorDiv(feature.coordinates.latitude, gridSize)>>}
    ELSE LET bounds == getFeatureBounds(feature)
         IN (FloorDiv(bounds.west, gridSize) .. CeilDiv(bounds.east, gridSize))
            \X (FloorDiv(bounds.south, gridSize) .. CeilDiv(bounds.north, gridSize))

featureIntersectsBounds(feature, bounds) ==
    IF feature.type = "point"
    THEN isPointInBounds(feature.coordinates, bounds)
    ELSE LET featureBounds == getFeatureBounds(feature)
         IN ~ \/ featureBounds.east < bounds.west
              \/ bounds.east < featureBounds.west
              \/ featureBounds.north < bounds.south
              \/ bounds.north < featureBounds.south

\* The keys of S in the order of the scan "for x ... for y ...".
RECURSIVE KeysInScanOrder(_)
KeysInScanOrder(S) ==
    IF S = {} THEN <<>>
    ELSE LET first == CHOOSE k \in S : \A m \in S :
                          k[1] < m[1] \/ (k[1] = m[1] /\ k[2] <= m[2])
         IN <<first>> \o KeysInScanOrder(S \ {first})

\* query, on an index whose tables are feats and grid.
queryOn(feats, grid, bounds) ==
    LET minGridX == FloorDiv(bounds.west, gridSize)
        maxGridX == CeilDiv(bounds.east, gridSize)
        minGridY == FloorDiv(bounds.south, gridSize)
        maxGridY == CeilDiv(bounds.north, gridSize)
        cells == {k \in DOMAIN grid : /\ minGridX <= k[1] /\ k[1] <= maxGridX
                                      /\ minGridY <= k[2] /\ k[2] <= maxGridY}
        scan == KeysInScanOrder(cells)
        candidateIds == Dedup(Flatten([i \in 1..Len(scan) |-> grid[scan[i]]]))
        Keep(id) == id \in DOMAIN feats /\ featureIntersectsBounds(feats[id], bounds)
        kept == SelectSeq(candidateIds, Keep)
    IN [i \in 1..Len(kept) |-> feats[kept[i]]]

\* queryRadius without the refinement by distance.
queryRadiusOn_BoxOnly(feats, grid, center, radiusKm) ==
    queryOn(feats, grid, createBoundingBox(center, radiusKm))

queryRadiusOn(feats, grid, center, radiusKm) ==
    LET bounds == createBoundingBox(center, radiusKm)
        candidates == queryOn(feats, grid, bounds)
        Near(feature) ==
            calculateDistance(center, getFeatureCenter(feature)) <= radiusKm * 1000
    IN SelectSeq(candidates, Near)

query(bounds) == queryOn(features, spatialGrid, bounds)
queryRadius(center, radiusKm) == queryRadiusOn(features, spatialGrid, center, radiusKm)

\* The grid after this.spatialGrid.get(key).add(id) for every key of keys.
GridAdd(grid, keys, id) ==
    [k \in DOMAIN grid \cup keys |->
        IF k \in keys
        THEN IF k \in DOMAIN grid
             THEN IF id \in Range(grid[k]) THEN grid[k] ELSE Append(grid[k], id)
             ELSE <<id>>
        ELSE grid[k]]

\* The grid after cell.delete(id) for every key of keys, with the cells that
\* became empty deleted.
GridDelete(grid, keys, id) ==
    LET Other(x) == x # id
        emptied == {k \in DOMAIN grid \cap keys : SelectSeq(grid[k], Other) = <<>>}
    IN [k \in DOMAIN grid \ emptied |->
           IF k \in keys THEN SelectSeq(grid[k], Other) ELSE grid[k]]

insertInto(feats, grid, feature) ==
    [features |-> [i \in DOMAIN feats \cup {feature.id} |->
                      IF i = feature.id THEN feature ELSE feats[i]],
     spatialGrid |-> GridAdd(grid, getGridKeys(feature), feature.id)]

removeFrom(feats, grid, id) ==
    IF id \notin DOMAIN feats
    THEN [ret |-> FALSE, features |-> feats, spatialGrid |-> grid]
    ELSE [ret |-> TRUE,
          features |-> [i \in DOMAIN feats \ {id} |-> feats[i]],
          spatialGrid |-> GridDelete(grid, getGridKeys(feats[id]), id)]

----------------------------------------------------------------------------
(* The operations of the Spatial Index as actions. *)

Ids == {"f1", "f2"}

Geometries ==
    { [type |-> "point", coordinates |-> SanFrancisco],
      [type |-> "point", coordinates |-> LosAngeles],
      [type |-> "point", coordinates |-> Corner],
      [type |-> "point", coordinates |-> AntiWest],
      [type |-> "point", coordinates |-> HighPoint],
      [type |-> "linestring", coordinates |-> LineCoords],
      [type |-> "polygon", coordinates |-> PolyCoords] }

IndexFeatures == {Feature(id, g.type, g.coordinates) : id \in Ids, g \in Geometries}

\* The centres and radii (km) of the radius queries, and the boxes of the
\* bounding-box queries.
Centers == {SanFrancisco, AntiEast, HighCenter}
Radii == {20, 100, 200}
World == [north |-> 90000000, south |-> -90000000, east |-> 180000000, west |-> -180000000]
BayArea == [north |-> 38000000, south |-> 37500000, east |-> -122000000, west |-> -122600000]
\* a box that overlaps the bounding box of LineCoords and holds no point
LineBox == [north |-> 37705000, south |-> 37600000, east |-> -122495000, west |-> -122700000]
QueryBounds == {World, BayArea, LineBox}

NoOp == [op |-> "none"]

\* The slots in which processQuery calls run, and a slot with no call in it.
Slots == {1, 2}
Idle == [pc |-> "idle"]

\* GeographicQueryEngine's default for options.confidenceThreshold (0.5)
DefaultConfidenceThreshold == 5000

Insert(feature) ==
    /\ opCount < MaxOps
    /\ LET after == insertInto(features, spatialGrid, feature)
       IN /\ features' = after.features
          /\ spatialGrid' = after.spatialGrid
    /\ lastOp' = [op |-> "insert", feature |-> feature]
    /\ opCount' = opCount + 1
    /\ UNCHANGED <<storeVars, engineVars>>

Remove(id) ==
    /\ opCount < MaxOps
    /\ LET after == removeFrom(features, spatialGrid, id)
       IN /\ features' = after.features
          /\ spatialGrid' = after.spatialGrid
          /\ lastOp' = [op |-> "remove", id |-> id, ret |-> after.ret]
    /\ opCount' = opCount + 1
    /\ UNCHANGED <<storeVars, engineVars>>

Clear_KeepsGrid ==
    /\ opCount < MaxOps
    /\ features' = << >>
    /\ spatialGrid' = spatialGrid
    /\ lastOp' = [op |-> "clear", dropped |-> DOMAIN features]
    /\ opCount' = opCount + 1
    /\ UNCHANGED <<storeVars, engineVars>>

\* clear(); dropped is the set of ids it found in the feature table
Clear ==
    /\ opCount < MaxOps
    /\ features' = << >>
    /\ spatialGrid' = << >>
    /\ lastOp' = [op |-> "clear", dropped |-> DOMAIN features]
    /\ opCount' = opCount + 1
    /\ UNCHANGED <<storeVars, engineVars>>

Query(bounds) ==
    /\ opCount < MaxOps
    /\ lastOp' = [op |-> "query", bounds |-> bounds, ret |-> query(bounds)]
    /\ opCount' = opCount + 1
    /\ UNCHANGED <<indexVars, storeVars, engineVars>>

QueryRadius(center, radiusKm) ==
    /\ opCount < MaxOps
    /\ lastOp' = [op |-> "queryRadius", center |-> center, radius |-> radiusKm,
                  ret |-> queryRadius(center, radiusKm)]
    /\ opCount' = opCount + 1
    /\ UNCHANGED <<indexVars, storeVars, engineVars>>

\* An empty index; no engine is at work.
InitIndex ==
    /\ features = << >>
    /\ spatialGrid = << >>
    /\ lastOp = NoOp
    /\ opCount = 0
    /\ documents = << >>
    /\ embeddings = << >>
    /\ spatialIndex = << >>
    /\ queryCache = << >>
    /\ confidenceThreshold = DefaultConfidenceThreshold
    /\ now = 0
    /\ requests = [r \in Slots |-> Idle]
    /\ calls = << >>

NextIndex ==
    \/ \E feature \in IndexFeatures : Insert(feature)
    \/ \E id \in Ids : Remove(id)
    \/ Clear
    \/ \E bounds \in QueryBounds : Query(bounds)
    \/ \E center \in Centers, radiusKm \in Radii : QueryRadius(center, radiusKm)

SpecIndex == InitIndex /\ [][NextIndex]_vars

----------------------------------------------------------------------------
(* Claims about the Spatial Index, checked under SpecIndex. *)

IsStored(feature) == feature.id \in DOMAIN features /\ features[feature.id] = feature

StoredFeatures == {features[id] : id \in DOMAIN features}

BucketIdsAt(k) == IF k \in DOMAIN spatialGrid THEN Range(spatialGrid[k]) ELSE {}

\* An id sits in a bucket of a cell that the geometry now stored under that
\* id does not touch, or in a bucket while no feature is stored under it.
HasStaleEntry ==
    \E k \in DOMAIN spatialGrid : \E id \in Range(spatialGrid[k]) :
        id \notin DOMAIN features \/ k \notin getGridKeys(features[id])

\* C6: no false negatives. Every stored point whose haversine distance to the
\* centre is at most the radius is in the list queryRadius returned.
C6_NoFalseNegatives ==
    lastOp.op = "queryRadius" =>
        \A id \in DOMAIN features :
            (/\ features[id].type = "point"
             /\ calculateDistance(lastOp.center, features[id].coordinates)
                    <= lastOp.radius * 1000)
            => features[id] \in Range(lastOp.ret)

\* C7: no false positives. Every feature queryRadius returned is stored and
\* its centre is at haversine distance at most the radius from the query
\* centre; with San Francisco and Los Angeles stored as points,
\* queryRadius(San Francisco, 100) returns San Francisco alone.
C7_NoFalsePositives ==
    lastOp.op = "queryRadius" =>
        /\ \A i \in 1..Len(lastOp.ret) :
              /\ IsStored(lastOp.ret[i])
              /\ calculateDistance(lastOp.center, getFeatureCenter(lastOp.ret[i]))
                     <= lastOp.radius * 1000
        /\ (/\ lastOp.center = SanFrancisco
            /\ lastOp.radius = 100
            /\ {[type |-> f.type, coordinates |-> f.coordinates] : f \in StoredFeatures}
                   = {[type |-> "point", coordinates |-> SanFrancisco],
                      [type |-> "point", coordinates |-> LosAngeles]})
           => /\ Len(lastOp.ret) = 1
              /\ lastOp.ret[1].coordinates = SanFrancisco

\* A radius query around San Francisco ran with San Francisco, which it
\* returned, and a second point, which it left out, both stored.
C7_Witness ==
    /\ lastOp.op = "queryRadius"
    /\ lastOp.center = SanFrancisco
    /\ lastOp.radius = 100
    /\ Cardinality(DOMAIN features) = 2
    /\ \A id \in DOMAIN features : features[id].type = "point"
    /\ Len(lastOp.ret) = 1
    /\ lastOp.ret[1].coordinates = SanFrancisco

\* What the claim calls intersecting: a point inside the box, or a
\* linestring/polygon whose bounding box overlaps the box.
Intersects(feature, bounds) ==
    IF feature.type = "point"
    THEN /\ bounds.south <= feature.coordinates.latitude
         /\ feature.coordinates.latitude <= bounds.north
         /\ bounds.west <= feature.coordinates.longitude
         /\ feature.coordinates.longitude <= bounds.east
    ELSE LET fb == getFeatureBounds(feature)
         IN /\ fb.west <= bounds.east /\ bounds.west <= fb.east
            /\ fb.south <= bounds.north /\ bounds.south <= fb.north

\* C8: after any sequence of insert, remove and clear, query(bounds) returns
\* exactly the stored features that intersect bounds, each once; a query over
\* the whole world returns every stored feature.
C8_QueryExact ==
    lastOp.op = "query" =>
        /\ Range(lastOp.ret) = {f \in StoredFeatures : Intersects(f, lastOp.bounds)}
        /\ Len(lastOp.ret) = Cardinality(Range(lastOp.ret))
        /\ lastOp.bounds = World => Range(lastOp.ret) = StoredFeatures

\* A bounding-box query returned a feature that was re-inserted with another
\* geometry, while the grid still holds an entry of the geometry it replaced.
C8_Witness ==
    /\ lastOp.op = "query"
    /\ lastOp.ret # <<>>
    /\ HasStaleEntry
    /\ \E i \in 1..Len(lastOp.ret) :
          \E k \in DOMAIN spatialGrid :
              /\ lastOp.ret[i].id \in Range(spatialGrid[k])
              /\ k \notin getGridKeys(lastOp.ret[i])

\* C9: in every reachable state each id in a grid bucket belongs to a stored
\* feature whose current geometry touches that cell; so after insert(f) and
\* insert(f') with the same id the id is in the cells of f' alone.
C9_GridMembershipRefreshed ==
    \A k \in DOMAIN spatialGrid : \A id \in Range(spatialGrid[k]) :
        /\ id \in DOMAIN features
        /\ k \in getGridKeys(features[id])

\* C10: remove(id) returns true exactly when a feature is stored under id;
\* after it returned true the id is in the feature table no longer and in no
\* grid bucket, and no bucket is empty; when it returns false the index is
\* unchanged.
C10_RemoveContract ==
    [][(lastOp'.op = "remove" /\ opCount' = opCount + 1) =>
          /\ lastOp'.ret = (lastOp'.id \in DOMAIN features)
          /\ lastOp'.ret =>
                /\ lastOp'.id \notin DOMAIN features'
                /\ \A k \in DOMAIN spatialGrid' :
                      /\ lastOp'.id \notin Range(spatialGrid'[k])
                      /\ spatialGrid'[k] # <<>>
          /\ ~lastOp'.ret => UNCHANGED indexVars]_vars

EmptyIndex == features = << >> /\ spatialGrid = << >>

\* C11: clear() leaves the feature table and the grid empty, so that every
\* query and queryRadius returns the empty list and remove(id) returns false
\* for every id; and the index stays so, with these answers, through every
\* operation but insert.
C11_ClearEmpties ==
    [][/\ (lastOp'.op = "clear" /\ opCount' = opCount + 1) =>
              /\ EmptyIndex'
              /\ \A bounds \in QueryBounds :
                     queryOn(features', spatialGrid', bounds) = << >>
              /\ \A center \in Centers, radiusKm \in Radii :
                     queryRadiusOn(features', spatialGrid', center, radiusKm) = << >>
              /\ \A id \in Ids : ~removeFrom(features', spatialGrid', id).ret
       /\ (EmptyIndex /\ opCount' = opCount + 1 /\ lastOp'.op # "insert") =>
              /\ EmptyIndex'
              /\ lastOp'.op \in {"query", "queryRadius"} => lastOp'.ret = << >>
              /\ lastOp'.op = "remove" => lastOp'.ret = FALSE]_vars

\* clear() ran on an index that held two features.
C11_Witness ==
    /\ lastOp.op = "clear"
    /\ Cardinality(lastOp.dropped) = 2
    /\ EmptyIndex

----------------------------------------------------------------------------
(* JavaScript strings and regular expressions, as far as the parser uses    *)
(* them.  A text is a TLA+ string; positions are 1-based here and 0-based   *)
(* in the entity positions the parser reports.                              *)

CharAt(s, i) == SubSeq(s, i, i)

\* String.prototype.substring on 1-based positions from..to (inclusive)
Slice(s, from, to) ==
    IF from > to \/ from > Len(s) THEN ""
    ELSE SubSeq(s, from, IF to > Len(s) THEN Len(s) ELSE to)

LowerCaseLetters == "abcdefghijklmnopqrstuvwxyz"
UpperCaseLetters == "ABCDEFGHIJKLMNOPQRSTUVWXYZ"
DecimalDigits == "0123456789"
\* the other characters of the Basic Latin block that the texts of the model use
OtherLatin == " ,.:-_>/?!'"

CharsOf(s) == {CharAt(s, i) : i \in 1..Len(s)}
LetterChars == CharsOf(LowerCaseLetters) \cup CharsOf(UpperCaseLetters)
DigitChars == CharsOf(DecimalDigits)
WordChars == LetterChars \cup DigitChars \cup {"_"}       \* \w
SpaceChars == {" ", "\t", "\n"}                            \* \s
\* The characters with a code of at most 255, which btoa accepts.
Latin1Chars == LetterChars \cup DigitChars \cup SpaceChars \cup CharsOf(OtherLatin)

IndexIn(alphabet, c) == CHOOSE i \in 1..Len(alphabet) : CharAt(alphabet, i) = c

LowerChar(c) ==
    IF c \in CharsOf(UpperCaseLetters)
    THEN CharAt(LowerCaseLetters, IndexIn(UpperCaseLetters, c))
    ELSE c

RECURSIVE toLowerCase(_)
toLowerCase(s) ==
    IF s = "" THEN ""
    ELSE toLowerCase(Slice(s, 1, Len(s) - 1)) \o LowerChar(CharAt(s, Len(s)))

RECURSIVE trimStart(_)
trimStart(s) ==
    IF s # "" /\ CharAt(s, 1) \in SpaceChars THEN trimStart(Slice(s, 2, Len(s))) ELSE s

RECURSIVE trimEnd(_)
trimEnd(s) ==
    IF s # "" /\ CharAt(s, Len(s)) \in SpaceChars
    THEN trimEnd(Slice(s, 1, Len(s) - 1)) ELSE s

trim(s) == trimEnd(trimStart(s))

includes(s, part) ==
    \E i \in 1..(Len(s) - Len(part) + 1) : SubSeq(s, i, i + Len(part) - 1) = part

\* Number.parseInt / parseFloat of a string of decimal digits.
RECURSIVE parseDigits(_)
parseDigits(s) ==
    IF s = "" THEN 0
    ELSE 10 * parseDigits(Slice(s, 1, Len(s) - 1))
         + (IndexIn(DecimalDigits, CharAt(s, Len(s))) - 1)

\* the position of the decimal point of a number, or one past its end
PointOf(s) == Min({i \in 1..Len(s) : CharAt(s, i) = "."} \cup {Len(s) + 1})

\* "digits(.digits)?" in millionths; digits after the sixth decimal are dropped
UnsignedMicro(s) ==
    parseDigits(Slice(s, 1, PointOf(s) - 1)) * 1000000
    + parseDigits(SubSeq(Slice(s, PointOf(s) + 1, Len(s)) \o "000000", 1, 6))

\* parseFloat of "-?digits(.digits)?" in millionths.
parseMicro(s) ==
    IF s # "" /\ CharAt(s, 1) = "-"
    THEN -UnsignedMicro(Slice(s, 2, Len(s)))
    ELSE UnsignedMicro(s)

\* parseFloat of "digits(.digits)?" for the texts of the model, whose distances
\* are whole numbers: the digits before the point.
parseWhole(s) == parseDigits(Slice(s, 1, PointOf(s) - 1))

(* Regular expressions.  A pattern is a tree of records; Ends(re, s, i) is   *)
(* the sequence of positions at which a match of re that starts at position *)
(* i of s can end, in the order in which a backtracking matcher tries them  *)
(* (greedy: longest first; lazy: shortest first; alternatives left to       *)
(* right).                                                                  *)

Lit(str) == [t |-> "lit", s |-> str]            \* a literal, compared caselessly
Class(chars) == [t |-> "class", c |-> chars]
Cat(parts) == [t |-> "cat", parts |-> parts]
Alt(opts) == [t |-> "alt", opts |-> opts]
Star(re) == [t |-> "star", r |-> re, greedy |-> TRUE]
Plus(re) == Cat(<<re, Star(re)>>)
LazyPlus(re) == Cat(<<re, [t |-> "star", r |-> re, greedy |-> FALSE]>>)
Opt(re) == Alt(<<re, Cat(<<>>)>>)
WordBoundary == [t |-> "wordb"]
EndOfInput == [t |-> "eos"]

IsWordAt(s, i) == i >= 1 /\ i <= Len(s) /\ CharAt(s, i) \in WordChars

\* the ends of r*: those of one more r and what follows (more), and none
StarEnds(greedy, i, more) == IF greedy THEN more \o <<i>> ELSE <<i>> \o more

RECURSIVE Ends(_, _, _), EndsCat(_, _, _), EndsAlt(_, _, _), EndsFrom(_, _, _)
Ends(re, s, i) ==
    CASE re.t = "lit" ->
            IF toLowerCase(Slice(s, i, i + Len(re.s) - 1)) = toLowerCase(re.s)
            THEN <<i + Len(re.s)>> ELSE <<>>
      [] re.t = "class" ->
            IF i <= Len(s) /\ CharAt(s, i) \in re.c THEN <<i + 1>> ELSE <<>>
      [] re.t = "wordb" ->
            IF IsWordAt(s, i - 1) # IsWordAt(s, i) THEN <<i>> ELSE <<>>
      [] re.t = "eos" -> IF i = Len(s) + 1 THEN <<i>> ELSE <<>>
      [] re.t = "cat" -> EndsCat(re.parts, s, <<i>>)
      [] re.t = "alt" -> EndsAlt(re.opts, s, i)
      [] re.t = "star" ->
            StarEnds(re.greedy, i,
                     EndsFrom(re, s, SelectSeq(Ends(re.r, s, i), LAMBDA e : e > i)))

\* the ends of re from each of the positions of starts, in their order
EndsFrom(re, s, starts) ==
    IF starts = <<>> THEN <<>>
    ELSE Ends(re, s, Head(starts)) \o EndsFrom(re, s, Tail(starts))

EndsCat(parts, s, starts) ==
    IF parts = <<>> THEN starts
    ELSE EndsCat(Tail(parts), s, EndsFrom(Head(parts), s, starts))

EndsAlt(opts, s, i) ==
    IF opts = <<>> THEN <<>>
    ELSE Ends(Head(opts), s, i) \o EndsAlt(Tail(opts), s, i)

\* The match of the pattern parts[1] parts[2] ... that starts at position i:
\* the positions <<i, e1, e2, ...>> at which its parts end, for the first way
\* the matcher finds; <<>> when there is none.
StartingAt(i, rest) == IF rest = <<>> THEN <<>> ELSE <<i>> \o rest
OrElse(m, otherwise) == IF m # <<>> THEN m ELSE otherwise

RECURSIVE MatchAt(_, _, _), FirstThrough(_, _, _)
MatchAt(parts, s, i) ==
    IF parts = <<>> THEN <<i>>
    ELSE StartingAt(i, FirstThrough(Tail(parts), s, Ends(Head(parts), s, i)))

FirstThrough(parts, s, ends) ==
    IF ends = <<>> THEN <<>>
    ELSE OrElse(MatchAt(parts, s, Head(ends)), FirstThrough(parts, s, Tail(ends)))

\* RegExp.prototype.exec from lastIndex = from - 1: the leftmost match.
RECURSIVE ExecFrom(_, _, _)
ExecFrom(parts, s, from) ==
    IF from > Len(s) + 1 THEN <<>>
    ELSE OrElse(MatchAt(parts, s, from), ExecFrom(parts, s, from + 1))

\* lastIndex (1-based) after the match m
LastIndex(m) == IF m[Len(m)] = m[1] THEN m[1] + 1 ELSE m[Len(m)]

\* Every match of a global pattern, as the loop
\* "while ((match = pattern.exec(text)) !== null)" sees them.
RECURSIVE AllMatches(_, _, _), MatchesAfter(_, _, _)
AllMatches(parts, s, from) == MatchesAfter(parts, s, ExecFrom(parts, s, from))

\* the match m and those after it
MatchesAfter(parts, s, m) ==
    IF m = <<>> THEN <<>> ELSE <<m>> \o AllMatches(parts, s, LastIndex(m))

\* the text of part k of a match, and the whole match
Group(s, m, k) == Slice(s, m[k], m[k + 1] - 1)
Whole(s, m) == Slice(s, m[1], m[Len(m)] - 1)

----------------------------------------------------------------------------
(* GeographicQueryParser.  Confidences are in ten-thousandths, coordinates   *)
(* in micro-degrees, distances in the whole units the text names.           *)

Letter == Class(LetterChars)
Digit == Class(DigitChars)
Space == Class(SpaceChars)
\* \d+(?:\.\d+)?
DecimalNumber == Cat(<<Plus(Digit), Opt(Cat(<<Lit("."), Plus(Digit)>>))>>)
\* \d+\.?\d*   and   -?\d+\.?\d*
LooseNumber == Cat(<<Plus(Digit), Opt(Lit(".")), Star(Digit)>>)
SignedNumber == Cat(<<Opt(Lit("-")), LooseNumber>>)
\* (km|kilometers?|miles?|meters?|m)
DistanceUnit ==
    Alt(<<Lit("km"), Cat(<<Lit("kilometer"), Opt(Lit("s"))>>),
          Cat(<<Lit("mile"), Opt(Lit("s"))>>),
          Cat(<<Lit("meter"), Opt(Lit("s"))>>), Lit("m")>>)

\* Each pattern is the sequence of its parts; group is the part that is
\* capture 1 of the source pattern.
LOCATION_PATTERNS ==
    << [parts |-> <<WordBoundary,
                    Alt(<<Lit("in"), Lit("at"), Lit("near"), Lit("around"),
                          Lit("within")>>),
                    Plus(Space),
                    Cat(<<Letter,
                          LazyPlus(Class(LetterChars \cup SpaceChars \cup {","}))>>),
                    Alt(<<Space, EndOfInput, Lit(",")>>)>>,
        group |-> 4],
       [parts |-> <<WordBoundary,
                    Cat(<<Letter, Plus(Class(LetterChars \cup SpaceChars)),
                          Alt(<<Lit("City"), Lit("County"), Lit("State"),
                                Lit("Province"), Lit("Country"), Lit("Park"),
                                Lit("Mountain"), Lit("River"), Lit("Lake")>>)>>),
                    WordBoundary>>,
        group |-> 2],
       [parts |-> <<WordBoundary, LooseNumber, Star(Space), Lit(","),
                    Star(Space), LooseNumber, WordBoundary>>,
        group |-> 2] >>

coordPattern ==
    <<WordBoundary, SignedNumber, Star(Space), Lit(","), Star(Space),
      SignedNumber, WordBoundary>>

DISTANCE_PATTERNS ==
    << [parts |-> <<WordBoundary, DecimalNumber, Star(Space), DistanceUnit,
                    WordBoundary>>,
        value |-> 2, unit |-> 4],
       [parts |-> <<WordBoundary, Lit("within"), Plus(Space), DecimalNumber,
                    Star(Space), DistanceUnit, WordBoundary>>,
        value |-> 4, unit |-> 6] >>

\* TIME_PATTERNS[0]; the other two patterns never capture "last" or "past",
\* so their matches add nothing.
RelativeTimePattern ==
    <<WordBoundary, Alt(<<Lit("last"), Lit("past")>>), Plus(Space), Plus(Digit),
      Plus(Space),
      Alt(<<Cat(<<Lit("day"), Opt(Lit("s"))>>), Cat(<<Lit("week"), Opt(Lit("s"))>>),
            Cat(<<Lit("month"), Opt(Lit("s"))>>),
            Cat(<<Lit("year"), Opt(Lit("s"))>>)>>),
      WordBoundary>>

INTENT_KEYWORDS ==
    << [type |-> "search",
        keywords |-> <<"find", "search", "locate", "show", "list", "get">>],
       [type |-> "compare",
        keywords |-> <<"compare", "difference", "versus", "vs", "contrast">>],
       [type |-> "analyze",
        keywords |-> <<"analyze", "analysis", "examine", "study", "investigate">>],
       [type |-> "describe",
        keywords |-> <<"describe", "what is", "tell me about", "information about">>],
       [type |-> "find_nearby",
        keywords |-> <<"nearby", "close to", "around", "near", "within">>],
       [type |-> "route",
        keywords |-> <<"route", "path", "direction", "navigate", "travel">>],
       [type |-> "change_detection",
        keywords |-> <<"change", "changed", "difference", "evolution", "trend">>] >>

FEATURE_TYPES ==
    <<"city", "town", "village", "mountain", "river", "lake", "forest", "park",
      "building", "road", "highway", "airport", "hospital", "school",
      "restaurant", "vegetation", "water", "urban", "agriculture", "desert",
      "coastline">>

\* an absent optional value (undefined, null)
None == <<>>
Some(x) == <<x>>

RECURSIVE SumSeq(_)
SumSeq(s) == IF s = <<>> THEN 0 ELSE Head(s) + SumSeq(Tail(s))

KeywordScore(queryText, keywords) ==
    SumSeq([k \in 1..Len(keywords) |->
                IF includes(queryText, keywords[k]) THEN 1 ELSE 0])

\* bestMatch after the keywords of one intent scored score
Better(type, score, bestMatch) ==
    IF score > bestMatch.score THEN [type |-> type, score |-> score] ELSE bestMatch

RECURSIVE BestIntent(_, _, _)
BestIntent(queryText, k, bestMatch) ==
    IF k > Len(INTENT_KEYWORDS) THEN bestMatch
    ELSE BestIntent(queryText, k + 1,
                    Better(INTENT_KEYWORDS[k].type,
                           KeywordScore(queryText, INTENT_KEYWORDS[k].keywords),
                           bestMatch))

Subtype(queryText, type) ==
    IF type # "search" THEN None
    ELSE IF includes(queryText, "satellite") \/ includes(queryText, "imagery")
         THEN Some("satellite_analysis")
    ELSE IF includes(queryText, "feature") \/ includes(queryText, "geographic")
         THEN Some("geographic_features")
    ELSE None

Intent(queryText, type) == [type |-> type, subtype |-> Subtype(queryText, type)]

\* extractIntent with `score >= bestMatch.score`
extractIntent_LaterWinsTies(queryText) ==
    Intent(queryText,
        INTENT_KEYWORDS[
            CHOOSE k \in 1..Len(INTENT_KEYWORDS) :
                \A j \in 1..Len(INTENT_KEYWORDS) :
                    \/ KeywordScore(queryText, INTENT_KEYWORDS[j].keywords)
                          < KeywordScore(queryText, INTENT_KEYWORDS[k].keywords)
                    \/ /\ KeywordScore(queryText, INTENT_KEYWORDS[j].keywords)
                            = KeywordScore(queryText, INTENT_KEYWORDS[k].keywords)
                       /\ j <= k].type)

extractIntent(queryText) ==
    Intent(queryText, BestIntent(queryText, 1, [type |-> "search", score |-> 0]).type)

Position(m) == [start |-> m[1] - 1, end |-> m[Len(m)] - 1]

normalizeUnit(unit) ==
    IF includes(toLowerCase(unit), "mile") THEN "miles"
    ELSE IF includes(toLowerCase(unit), "meter") \/ toLowerCase(unit) = "m"
    THEN "meters"
    ELSE "km"

\* an ExtractedEntity for the match m
Entity(text, type, value, confidence, m) ==
    [text |-> text, type |-> type, value |-> value, confidence |-> confidence,
     position |-> Position(m)]

NamedLocation(text, m) == Entity(text, "location", [name |-> text], 8000, m)

NamedLocationsOf(queryText, group, matches) ==
    [k \in 1..Len(matches) |->
        NamedLocation(trim(Group(queryText, matches[k], group)), matches[k])]

NamedLocations(queryText, pattern) ==
    NamedLocationsOf(queryText, pattern.group,
        SelectSeq(AllMatches(pattern.parts, queryText, 1),
                  LAMBDA m : Len(trim(Group(queryText, m, pattern.group))) > 2))

InRange(lat, lon) ==
    /\ lat >= -90000000 /\ lat <= 90000000
    /\ lon >= -180000000 /\ lon <= 180000000

CoordinateLocationsOf(queryText, matches) ==
    [k \in 1..Len(matches) |->
        Entity(Whole(queryText, matches[k]), "location",
               [latitude |-> parseMicro(Group(queryText, matches[k], 2)),
                longitude |-> parseMicro(Group(queryText, matches[k], 6))],
               9500, matches[k])]

CoordinateLocations(queryText) ==
    CoordinateLocationsOf(queryText,
        SelectSeq(AllMatches(coordPattern, queryText, 1),
                  LAMBDA m : InRange(parseMicro(Group(queryText, m, 2)),
                                     parseMicro(Group(queryText, m, 6)))))

FeatureTypeEntitiesOf(queryText, featureType, matches) ==
    [k \in 1..Len(matches) |->
        Entity(Whole(queryText, matches[k]), "feature_type",
               [featureType |-> featureType], 9000, matches[k])]

FeatureTypeEntities(queryText, featureType) ==
    FeatureTypeEntitiesOf(queryText, featureType,
        AllMatches(<<WordBoundary, Lit(featureType), Opt(Lit("s")), WordBoundary>>,
                   queryText, 1))

MeasurementsOf(queryText, pattern, matches) ==
    [k \in 1..Len(matches) |->
        Entity(Whole(queryText, matches[k]), "measurement",
               [distance |-> parseWhole(Group(queryText, matches[k], pattern.value)),
                unit |-> normalizeUnit(Group(queryText, matches[k], pattern.unit))],
               9500, matches[k])]

Measurements(queryText, pattern) ==
    MeasurementsOf(queryText, pattern, AllMatches(pattern.parts, queryText, 1))

extractEntities(queryText) ==
    Flatten([p \in 1..Len(LOCATION_PATTERNS) |->
                NamedLocations(queryText, LOCATION_PATTERNS[p])])
    \o CoordinateLocations(queryText)
    \o Flatten([f \in 1..Len(FEATURE_TYPES) |->
                FeatureTypeEntities(queryText, FEATURE_TYPES[f])])
    \o Flatten([p \in 1..Len(DISTANCE_PATTERNS) |->
                Measurements(queryText, DISTANCE_PATTERNS[p])])

IsCoordinateValue(value) == "latitude" \in DOMAIN value

Abs(n) == IF n < 0 THEN -n ELSE n

\* Array.prototype.find
FirstOf(found) == IF found = <<>> THEN None ELSE Some(found[1])
FindFirst(s, Test(_)) == FirstOf(SelectSeq(s, Test))

CoordinateConstraint(geometry, nearbyMeasurement) ==
    IF nearbyMeasurement # None
    THEN [type |-> "radius", geometry |-> geometry,
          parameters |-> [radius |-> nearbyMeasurement[1].value.distance,
                          unit |-> nearbyMeasurement[1].value.unit]]
    ELSE [type |-> "point", geometry |-> geometry, parameters |-> [none |-> TRUE]]

LocationConstraint(locationEntity, measurementEntities) ==
    IF IsCoordinateValue(locationEntity.value)
    THEN CoordinateConstraint(locationEntity.value,
             FindFirst(measurementEntities, LAMBDA m :
                 Abs(m.position.start - locationEntity.position.end) < 50))
    ELSE [type |-> "within", geometry |-> [latitude |-> 0, longitude |-> 0],
          parameters |-> [locationName |-> locationEntity.value.name]]

defaultRadius(measurementEntities) ==
    IF Len(measurementEntities) > 0 THEN measurementEntities[1].value.distance ELSE 10

ConstraintsOf(queryText, locationEntities, measurementEntities) ==
    [k \in 1..Len(locationEntities) |->
        LocationConstraint(locationEntities[k], measurementEntities)]
    \o (IF /\ \/ includes(queryText, "nearby")
              \/ includes(queryText, "around")
              \/ includes(queryText, "near")
           /\ Len(locationEntities) > 0
           /\ IsCoordinateValue(locationEntities[1].value)
        THEN << [type |-> "radius", geometry |-> locationEntities[1].value,
                 parameters |-> [radius |-> defaultRadius(measurementEntities),
                                 unit |-> "km"]] >>
        ELSE <<>>)

extractSpatialConstraints(queryText, entities) ==
    ConstraintsOf(queryText,
                  SelectSeq(entities, LAMBDA e : e.type = "location"),
                  SelectSeq(entities, LAMBDA e : e.type = "measurement"))

\* The dates of a constraint are the day of the call and that day moved back
\* by amount units; the model keeps the amount and the unit.
TemporalConstraintsOf(queryText, matches) ==
    [k \in 1..Len(matches) |->
        [type |-> "between",
         amount |-> parseDigits(Group(queryText, matches[k], 4)),
         unit |-> toLowerCase(Group(queryText, matches[k], 6))]]

extractTemporalConstraints(queryText) ==
    TemporalConstraintsOf(queryText, AllMatches(RelativeTimePattern, queryText, 1))

typeFilter(queryText, typeMatch) ==
    IF /\ includes(queryText, "type:") \/ includes(queryText, "category:")
       /\ typeMatch # <<>>
    THEN << [field |-> "type", operator |-> "equals",
             value |-> [text |-> Group(queryText, typeMatch, 4)]] >>
    ELSE <<>>

confFilter(queryText, confMatch) ==
    IF /\ includes(queryText, "confidence") \/ includes(queryText, "accuracy")
       /\ confMatch # <<>>
    THEN << [field |-> "confidence", operator |-> "greater_than",
             value |-> [micro |-> parseMicro(Group(queryText, confMatch, 5))]] >>
    ELSE <<>>

extractFilters(queryText) ==
    typeFilter(queryText,
        ExecFrom(<<Alt(<<Lit("type"), Lit("category")>>), Lit(":"), Star(Space),
                   Plus(Class(LetterChars \cup {"_"}))>>, queryText, 1))
    \o confFilter(queryText,
        ExecFrom(<<Alt(<<Lit("confidence"), Lit("accuracy")>>), Star(Space),
                   Alt(<<Lit(">"), Lit("above"), Lit("greater than")>>),
                   Star(Space), DecimalNumber>>, queryText, 1))

\* the base confidence of every parse
BaseConfidence == 5000

\* avgEntityConfidence * 0.2, rounded down to a ten-thousandth
QualityBoost(entities) ==
    IF Len(entities) > 0
    THEN (2 * SumSeq([k \in 1..Len(entities) |-> entities[k].confidence]))
             \div (10 * Len(entities))
    ELSE 0

calculateParsingConfidence(intent, entities, spatialConstraints) ==
    Min({BaseConfidence
         + (IF intent.type # "search" \/ intent.subtype # None THEN 2000 ELSE 0)
         + Min({Len(entities) * 1000, 3000})
         + Min({Len(spatialConstraints) * 1500, 3000})
         + QualityBoost(entities),
         10000})

ParsedQuery(intent, entities, spatialConstraints, temporalConstraints, filters) ==
    [intent |-> intent,
     entities |-> entities,
     spatialConstraints |-> spatialConstraints,
     temporalConstraints |-> temporalConstraints,
     filters |-> filters,
     confidence |-> calculateParsingConfidence(intent, entities, spatialConstraints)]

\* parseQuery once the entities are extracted
ParseWith(queryText, normalizedQuery, entities) ==
    ParsedQuery(extractIntent(normalizedQuery),
                entities,
                extractSpatialConstraints(queryText, entities),
                extractTemporalConstraints(normalizedQuery),
                extractFilters(normalizedQuery))

parseQuery(queryText) ==
    ParseWith(queryText, trim(toLowerCase(queryText)), extractEntities(queryText))

----------------------------------------------------------------------------
(* src/lib/rag: the embedding provider and the spatial enhancement of an     *)
(* embedding.  A vector is a sequence of integers, its components counted   *)
(* in tenths; a score (similarity, relevance, confidence) is an integer     *)
(* number of ten-thousandths.                                                *)

Scale == 10000

\* round(a / b) for b > 0 (Math.round: halves go up)
RoundDiv(a, b) == (2 * a + b) \div (2 * b)

\* Bound: the length of the provider's vectors (MockEmbeddingProvider makes
\* them 384 long).
dimensions == 2

KnownChars == LowerCaseLetters \o UpperCaseLetters \o DecimalDigits \o OtherLatin
CharCodes == [c \in CharsOf(KnownChars) |-> IndexIn(KnownChars, c)]
charCodeAt(c) == IF c \in DOMAIN CharCodes THEN CharCodes[c] ELSE 0

\* simpleHash: hash * 31 + code over the characters, kept to 20 bits
RECURSIVE simpleHash(_)
simpleHash(str) ==
    IF str = "" THEN 0
    ELSE (31 * simpleHash(Slice(str, 1, Len(str) - 1)) + charCodeAt(CharAt(str, Len(str))))
             % 1048576

\* generateEmbedding: a vector that depends on the hash of the text and the
\* position alone and is never the zero vector.  The provider is a capability
\* outside the core; the model's stands for the mock's trigonometric mix.
generateEmbedding(text) ==
    [i \in 1..dimensions |-> ((simpleHash(text) + i) % 7) - 3]

\* sin(lat), cos(lat), sin(lon), cos(lon) in tenths, for the locations that
\* documents of the model have
SpatialTrig(location) ==
    CASE location = SanFrancisco -> <<6, 8, -8, -5>>
      [] location = LosAngeles -> <<6, 8, -9, -5>>

\* Math.tanh(elevation / 5000) in tenths, for an elevation in metres >= 0
TanhTenths(elevation) ==
    Cardinality({k \in {251, 756, 1278, 1828, 2424, 3092, 3877, 4865, 6281, 9159} :
                    elevation >= k})

encodeClimate(climate) ==
    LET name == toLowerCase(climate)
    IN CASE name = "tropical" -> <<10, 0, 0>>
         [] name = "temperate" -> <<0, 10, 0>>
         [] name = "polar" -> <<0, 0, 10>>
         [] name = "arid" -> <<5, 5, 0>>
         [] name = "mediterranean" -> <<7, 3, 0>>
         [] OTHER -> <<0, 0, 0>>

extractSpatialFeatures(document) ==
    LET location == document.metadata.location
        context == document.spatialContext
        coordinateFeatures ==
            IF location # None
            THEN <<RoundDiv(location[1].latitude, 9000000),
                   RoundDiv(location[1].longitude, 18000000)>>
                 \o SpatialTrig(location[1])
            ELSE <<>>
        elevationFeature ==
            IF context # None /\ context[1].elevation # None
                              /\ context[1].elevation[1] # 0
            THEN <<TanhTenths(context[1].elevation[1])>>
            ELSE <<0>>
        climateFeatures ==
            IF context # None /\ context[1].climate # ""
            THEN encodeClimate(context[1].climate)
            ELSE <<0, 0, 0>>
    IN coordinateFeatures \o elevationFeature \o climateFeatures

enhanceWithSpatialContext(textEmbedding, document) ==
    IF document.metadata.location # None
    THEN textEmbedding \o extractSpatialFeatures(document)
    ELSE textEmbedding

----------------------------------------------------------------------------
(* src/lib/rag/vector-store.ts: GeographicVectorStore.  A store is the record *)
(* of its three tables.  A function that can throw returns Throw(message)    *)
(* or Return(value).                                                         *)

Throw(message) == [threw |-> TRUE, error |-> message, value |-> <<>>]
Return(value) == [threw |-> FALSE, error |-> "", value |-> value]

\* VectorStoreOptions as GeographicRAGEngine sets them
storeSpatialWeight == 3000
maxResults == 10
\* the store's grid cell, 0.1 degree
storeGridSize == 100000

Store(docs, embs, grid) == [documents |-> docs, embeddings |-> embs, spatialIndex |-> grid]
EmptyStore == Store(<< >>, << >>, << >>)

DocumentIds(docs) == {docs[i].id : i \in 1..Len(docs)}
\* Map.get
DocumentAt(docs, id) == docs[CHOOSE i \in 1..Len(docs) : docs[i].id = id]

\* Map.set: the entry of an id that is present is replaced where it stands, a
\* new id goes last.
MapSet(docs, document) ==
    IF document.id \in DocumentIds(docs)
    THEN [i \in 1..Len(docs) |-> IF docs[i].id = document.id THEN document ELSE docs[i]]
    ELSE Append(docs, document)

storeGridKey(location) ==
    <<FloorDiv(location.longitude, storeGridSize), FloorDiv(location.latitude, storeGridSize)>>

addToSpatialIndex(grid, docId, location) ==
    LET gridKey == storeGridKey(location)
    IN [k \in DOMAIN grid \cup {gridKey} |->
          IF k = gridKey
          THEN (IF k \in DOMAIN grid THEN grid[k] ELSE <<>>) \o <<docId>>
          ELSE grid[k]]

\* Array.prototype.indexOf, 0 when the element is absent
IndexOf(s, x) == IF x \in Range(s) THEN Min({i \in 1..Len(s) : s[i] = x}) ELSE 0

RemoveAt(s, i) == SubSeq(s, 1, i - 1) \o SubSeq(s, i + 1, Len(s))

removeFromSpatialIndex(grid, docId, location) ==
    LET gridKey == storeGridKey(location)
        index == IF gridKey \in DOMAIN grid THEN IndexOf(grid[gridKey], docId) ELSE 0
    IN IF index = 0 THEN grid
       ELSE IF Len(grid[gridKey]) = 1
            THEN [k \in DOMAIN grid \ {gridKey} |-> grid[k]]
            ELSE [grid EXCEPT ![gridKey] = RemoveAt(grid[gridKey], index)]

addDocument(store, document) ==
    Store(MapSet(store.documents, document),
          IF document.embedding # None
          THEN [id \in DOMAIN store.embeddings \cup {document.id} |->
                   IF id = document.id THEN document.embedding[1]
                   ELSE store.embeddings[id]]
          ELSE store.embeddings,
          IF document.metadata.location # None
          THEN addToSpatialIndex(store.spatialIndex, document.id,
                                 document.metadata.location[1])
          ELSE store.spatialIndex)

removeDocument(store, id) ==
    IF id \notin DocumentIds(store.documents)
    THEN [ret |-> FALSE, store |-> store]
    ELSE LET document == DocumentAt(store.documents, id)
         IN [ret |-> TRUE,
             store |->
                Store(SelectSeq(store.documents, LAMBDA d : d.id # id),
                      [i \in DOMAIN store.embeddings \ {id} |-> store.embeddings[i]],
                      IF document.metadata.location # None
                      THEN removeFromSpatialIndex(store.spatialIndex, id,
                                                  document.metadata.location[1])
                      ELSE store.spatialIndex)]

\* floor(sqrt(n)), by bisection of low..high
RECURSIVE IsqrtIn(_, _, _)
IsqrtIn(n, low, high) ==
    IF low >= high THEN low
    ELSE LET mid == (low + high + 1) \div 2
         IN IF mid * mid <= n THEN IsqrtIn(n, mid, high) ELSE IsqrtIn(n, low, mid - 1)

Isqrt(n) == IsqrtIn(n, 0, Min({n, 46340}))

DotProduct(a, b) == SumSeq([i \in 1..Len(a) |-> a[i] * b[i]])

\* dot / root to the ten-thousandth, root being ten times the product of the
\* norms; the division by zero of a zero vector gives NaN, which the model
\* writes as a similarity of 0
Cosine(dotProduct, root) ==
    IF root = 0 THEN 0
    ELSE IF dotProduct >= 0
         THEN (dotProduct * 10 * Scale) \div root
         ELSE -(((-dotProduct) * 10 * Scale) \div root)

cosineSimilarity_OneNorm(a, b) ==
    IF Len(a) # Len(b) THEN Throw("Vectors must have the same length")
    ELSE Return(Cosine(DotProduct(a, b),
                       Isqrt(DotProduct(a, a) * DotProduct(a, a) * 100)))

\* cosineSimilarity: dotProduct / (sqrt(normA) * sqrt(normB))
cosineSimilarity(a, b) ==
    IF Len(a) # Len(b) THEN Throw("Vectors must have the same length")
    ELSE Return(Cosine(DotProduct(a, b),
                       Isqrt(DotProduct(a, a) * DotProduct(b, b) * 100)))

\* Math.exp(-x) in ten-thousandths, x in thousandths: the series to the cubic
\* term below 1/8, the product of the halves above.
RECURSIVE ExpNeg(_)
ExpNeg(x) ==
    IF x > 16000 THEN 0
    ELSE IF x <= 125
         THEN Scale - 10 * x + (x * x) \div 200 - (x * x * x) \div 600000
         ELSE (ExpNeg(x \div 2) * ExpNeg(x - x \div 2)) \div Scale

\* query.radius || fallback
OrDefault(option, fallback) ==
    IF option # None /\ option[1] # 0 THEN option[1] ELSE fallback

calculateSpatialRelevance(document, ragQuery) ==
    IF ragQuery.location = None \/ document.metadata.location = None
    THEN 5000
    ELSE LET distance == calculateDistance(ragQuery.location[1],
                                           document.metadata.location[1])
             maxDistance == OrDefault(ragQuery.radius, 100)
         IN ExpNeg((3 * distance) \div maxDistance)

combineScores_RelevanceSubtracted(similarity, spatialRelevance, spatialWeight) ==
    ((Scale - spatialWeight) * similarity - spatialWeight * spatialRelevance) \div Scale

combineScores(similarity, spatialRelevance, spatialWeight) ==
    ((Scale - spatialWeight) * similarity + spatialWeight * spatialRelevance) \div Scale

\* the cells that hold documents, in the order in which the scan of the grid
\* range meets them
ScannedCells(grid, minGridX, maxGridX, minGridY, maxGridY) ==
    SelectSeq(KeysInScanOrder(DOMAIN grid), LAMBDA k :
        /\ k[1] >= minGridX /\ k[1] <= maxGridX
        /\ k[2] >= minGridY /\ k[2] <= maxGridY)

CellsAround(grid, location, latRange, lonRange) ==
    ScannedCells(grid,
                 FloorDiv(location.longitude - lonRange, storeGridSize),
                 CeilDiv(location.longitude + lonRange, storeGridSize),
                 FloorDiv(location.latitude - latRange, storeGridSize),
                 CeilDiv(location.latitude + latRange, storeGridSize))

DocumentsOfCells(grid, cells) == Flatten([i \in 1..Len(cells) |-> grid[cells[i]]])

getSpatialCandidates(store, location, radiusKm) ==
    SelectSeq(DocumentsOfCells(store.spatialIndex,
                  CellsAround(store.spatialIndex, location,
                      (radiusKm * 1000000) \div 111,
                      LongDiv(radiusKm * 1000000, 111 * CosMicro(location.latitude), 6))),
              LAMBDA docId :
                  /\ docId \in DocumentIds(store.documents)
                  /\ DocumentAt(store.documents, docId).metadata.location # None
                  /\ calculateDistance(location,
                         DocumentAt(store.documents, docId).metadata.location[1])
                        <= radiusKm * 1000)

\* a document's timestamp and the dates of a range are minutes on the clock
PassesFilters(document, filters) ==
    /\ filters.type # None => document.metadata.type \in Range(filters.type[1])
    /\ filters.dateRange # None =>
          /\ document.metadata.timestamp >= filters.dateRange[1].start
          /\ document.metadata.timestamp <= filters.dateRange[1].end
    /\ filters.tags # None =>
          \E tag \in Range(filters.tags[1]) : tag \in Range(document.metadata.tags)
    /\ ~ /\ filters.minConfidence # None /\ filters.minConfidence[1] # 0
         /\ document.metadata.confidence # None /\ document.metadata.confidence[1] # 0
         /\ document.metadata.confidence[1] < filters.minConfidence[1]

\* the spatial candidates, or every document when there is none
OrAllDocuments(spatialCandidates, allDocuments) ==
    IF spatialCandidates = <<>> THEN allDocuments ELSE spatialCandidates

FilteredCandidates(store, ragQuery, candidates) ==
    IF ragQuery.filters = None THEN candidates
    ELSE SelectSeq(candidates, LAMBDA docId :
             /\ docId \in DocumentIds(store.documents)
             /\ PassesFilters(DocumentAt(store.documents, docId), ragQuery.filters[1]))

AllDocumentIds(store) == [i \in 1..Len(store.documents) |-> store.documents[i].id]

\* the candidates of getCandidateDocuments before the filters are applied
SelectedCandidates(store, ragQuery) ==
    IF ragQuery.location = None THEN AllDocumentIds(store)
    ELSE OrAllDocuments(
             Dedup(getSpatialCandidates(store, ragQuery.location[1],
                                        OrDefault(ragQuery.radius, 100))),
             AllDocumentIds(store))

getCandidateDocuments(store, ragQuery) ==
    FilteredCandidates(store, ragQuery, SelectedCandidates(store, ragQuery))

\* where a stable sort by falling combinedScore puts last among sorted
PlaceByScore(sorted, last) ==
    SelectSeq(sorted, LAMBDA r : r.combinedScore >= last.combinedScore)
    \o <<last>>
    \o SelectSeq(sorted, LAMBDA r : r.combinedScore < last.combinedScore)

\* Array.prototype.sort with (a, b) => b.combinedScore - a.combinedScore: a
\* stable sort by falling combinedScore
RECURSIVE SortByScore(_)
SortByScore(results) ==
    IF results = <<>> THEN <<>>
    ELSE PlaceByScore(SortByScore(SubSeq(results, 1, Len(results) - 1)),
                      results[Len(results)])

VectorSearchResult(document, similarity, spatialRelevance, spatialWeight) ==
    [document |-> document,
     similarity |-> similarity,
     spatialRelevance |-> spatialRelevance,
     combinedScore |-> combineScores(similarity, spatialRelevance, spatialWeight)]

ScoreOf(store, queryEmbedding, ragQuery, docId) ==
    VectorSearchResult(
        DocumentAt(store.documents, docId),
        cosineSimilarity(queryEmbedding, store.embeddings[docId]).value,
        calculateSpatialRelevance(DocumentAt(store.documents, docId), ragQuery),
        OrDefault(ragQuery.spatialWeight, storeSpatialWeight))

\* slice taking the last maxResults of the sorted results
TopResults_KeepsLast(sorted) ==
    SubSeq(sorted, Max({1, Len(sorted) - maxResults + 1}), Len(sorted))

TopResults(sorted) == SubSeq(sorted, 1, Min({Len(sorted), maxResults}))

\* search over the candidates that have a stored document and embedding
SearchAmong(store, queryEmbedding, ragQuery, scored) ==
    IF \E i \in 1..Len(scored) :
           Len(store.embeddings[scored[i]]) # Len(queryEmbedding)
    THEN Throw("Vectors must have the same length")
    ELSE Return(TopResults(SortByScore(
             [i \in 1..Len(scored) |->
                 ScoreOf(store, queryEmbedding, ragQuery, scored[i])])))

search(store, queryEmbedding, ragQuery) ==
    SearchAmong(store, queryEmbedding, ragQuery,
        SelectSeq(getCandidateDocuments(store, ragQuery), LAMBDA docId :
            docId \in DocumentIds(store.documents)
            /\ docId \in DOMAIN store.embeddings))

----------------------------------------------------------------------------
(* src/lib/rag/rag-engine.ts: GeographicRAGEngine *)

RECURSIVE Concat(_)
Concat(strings) == IF strings = <<>> THEN "" ELSE Head(strings) \o Concat(Tail(strings))

\* s.split(separator)[0] for a separator of one character
SplitFirst(s, separator) ==
    LET at == {i \in 1..Len(s) : CharAt(s, i) = separator}
    IN IF at = {} THEN s ELSE Slice(s, 1, Min(at) - 1)

\* (micro / 1e6).toFixed(4)
toFixed4(micro) ==
    LET rounded == RoundDiv(Abs(micro), 100)
        decimals == ToString(rounded % 10000)
    IN (IF micro < 0 /\ rounded # 0 THEN "-" ELSE "")
       \o ToString(rounded \div 10000) \o "."
       \o SubSeq("0000", 1, 4 - Len(decimals)) \o decimals

\* (score / 1e4).toFixed(2)
toFixed2(score) ==
    LET rounded == RoundDiv(score, 100)
        decimals == ToString(rounded % 100)
    IN ToString(rounded \div 100) \o "." \o SubSeq("00", 1, 2 - Len(decimals)) \o decimals

\* the mean of the combinedScore of sources, rounded down
AverageScore(sources) ==
    SumSeq([i \in 1..Len(sources) |-> sources[i].combinedScore]) \div Len(sources)

InsufficientAnswer ==
    "I don't have enough information to answer your question about this geographic area. Please try a different query or expand your search radius."

generateAnswer(ragQuery, sources) ==
    IF sources = <<>> THEN InsufficientAnswer
    ELSE
    LET featureSources == SelectSeq(sources, LAMBDA s : s.document.metadata.type = "feature")
        analysisSources == SelectSeq(sources, LAMBDA s : s.document.metadata.type = "analysis")
        featureLines ==
            [k \in 1..Min({Len(featureSources), 3}) |->
                ToString(k) \o ". "
                \o SplitFirst(featureSources[k].document.content, ".") \o ".\n"]
        analysisLines ==
            [k \in 1..Min({Len(analysisSources), 2}) |->
                ToString(k) \o ". "
                \o SplitFirst(analysisSources[k].document.content, "\n") \o "\n"]
    IN "Based on the available geographic data, here's what I found:\n\n"
       \o (IF featureSources # <<>>
           THEN "Geographic Features:\n" \o Concat(featureLines) \o "\n" ELSE "")
       \o (IF analysisSources # <<>>
           THEN "Satellite Analysis Insights:\n" \o Concat(analysisLines) \o "\n" ELSE "")
       \o (IF ragQuery.location # None
           THEN "This information is relevant to the area around coordinates "
                \o toFixed4(ragQuery.location[1].latitude) \o ", "
                \o toFixed4(ragQuery.location[1].longitude)
                \o (IF ragQuery.radius # None /\ ragQuery.radius[1] # 0
                    THEN " within a " \o ToString(ragQuery.radius[1]) \o "km radius"
                    ELSE "")
                \o ".\n\n"
           ELSE "")
       \o (IF AverageScore(sources) < 7000
           THEN "Note: This information has moderate confidence. Consider expanding your search or consulting additional sources."
           ELSE "")

analyzeSpatialContext(ragQuery, sources) ==
    LET withRegion == SelectSeq(sources, LAMBDA s :
                          s.document.spatialContext # None
                          /\ s.document.spatialContext[1].region # "")
        radius == OrDefault(ragQuery.radius, 0)
    IN [queryLocation |-> ragQuery.location,
        relevantRegions |->
            Dedup([i \in 1..Len(withRegion) |->
                      withRegion[i].document.spatialContext[1].region]),
        spatialScope |->
            IF ragQuery.location = None THEN "global"
            ELSE IF radius # 0 /\ radius <= 10 THEN "local"
            ELSE IF radius # 0 /\ radius <= 100 THEN "regional"
            ELSE "national"]

\* min(1, avgScore + min(sources.length / 5, 1) * 0.1)
calculateConfidence(sources) ==
    IF sources = <<>> THEN 0
    ELSE Min({Scale, AverageScore(sources) + Min({Len(sources) * 200, 1000})})

RAGResponse(ragQuery, sources) ==
    [answer |-> generateAnswer(ragQuery, sources),
     sources |-> sources,
     spatialContext |-> analyzeSpatialContext(ragQuery, sources),
     confidence |-> calculateConfidence(sources),
     metadata |-> [documentsRetrieved |-> Len(sources),
                   spatialFiltering |-> ragQuery.location # None]]

ResponseTo(ragQuery, found) ==
    IF found.threw THEN found ELSE Return(RAGResponse(ragQuery, found.value))

\* GeographicRAGEngine.query from the point where the provider has returned
\* the embedding of the query text; the times the response reports are not
\* modelled.
ragEngineQuery(store, ragQuery, queryEmbedding) ==
    ResponseTo(ragQuery, search(store, queryEmbedding, ragQuery))

\* GeographicRAGEngine.addDocuments for one document, from the point where
\* the provider has returned the embedding of its content.
ragEngineAddDocument(store, document, baseEmbedding) ==
    addDocument(store,
        [document EXCEPT !.embedding =
            Some(enhanceWithSpatialContext(baseEmbedding, document))])

----------------------------------------------------------------------------
(* src/lib/query/executor.ts: QueryExecutor *)

\* CACHE_TTL, in minutes
CACHE_TTL == 5
\* the number of entries above which cacheResult drops the oldest one
MaxCacheEntries == 100

\* The number of times each text occurs in texts: what the sorted list of the
\* texts amounts to when two lists are compared.
Sorted(texts) ==
    [t \in Range(texts) |-> Cardinality({i \in 1..Len(texts) : texts[i] = t})]

\* generateCacheKey: btoa(JSON.stringify(keyData)).  btoa throws when the
\* string holds a character outside Latin-1; both conversions are one-to-one,
\* so two keys are equal exactly when their keyData are.
generateCacheKey(parsedQuery, originalText) ==
    LET entityTexts == [i \in 1..Len(parsedQuery.entities) |-> parsedQuery.entities[i].text]
        text == trim(toLowerCase(originalText))
        encodable == \A s \in Range(entityTexts) \cup {text} : CharsOf(s) \subseteq Latin1Chars
    IN IF ~encodable THEN Throw("Invalid character")
       ELSE Return([intent |-> parsedQuery.intent.type,
                    entities |-> Sorted(entityTexts),
                    spatial |-> Len(parsedQuery.spatialConstraints),
                    temporal |-> Len(parsedQuery.temporalConstraints),
                    text |-> text])

\* createExecutionPlan with an aggregation step for every search
createExecutionPlan_AlwaysAggregates(parsedQuery) ==
    LET spatial == Len(parsedQuery.spatialConstraints) > 0
        planKey == generateCacheKey(parsedQuery, "")
    IN IF planKey.threw THEN planKey
       ELSE Return([steps |->
                        (IF spatial
                         THEN << [id |-> "spatial_filter", type |-> "spatial_filter",
                                  operation |-> "filter_by_spatial_constraints",
                                  parameters |->
                                      [constraints |-> parsedQuery.spatialConstraints],
                                  dependencies |-> <<>>] >>
                         ELSE <<>>)
                        \o << [id |-> "rag_search", type |-> "rag_search",
                                operation |-> "semantic_search",
                                parameters |->
                                    [intent |-> parsedQuery.intent,
                                     entities |-> parsedQuery.entities,
                                     filters |-> parsedQuery.filters,
                                     temporalConstraints |->
                                         parsedQuery.temporalConstraints],
                                dependencies |-> IF spatial THEN <<"spatial_filter">>
                                                 ELSE <<>>] >>
                        \o (IF parsedQuery.intent.type = "search"
                            THEN << [id |-> "aggregation", type |-> "aggregation",
                                     operation |-> "aggregate_results",
                                     parameters |-> [groupBy |-> "type"],
                                     dependencies |-> <<"rag_search">>] >>
                            ELSE <<>>),
                    estimatedCost |-> 6 + (IF spatial THEN 2 ELSE 0),
                    cacheKey |-> planKey.value])

createExecutionPlan(parsedQuery) ==
    LET spatial == Len(parsedQuery.spatialConstraints) > 0
        spatialStep ==
            IF spatial
            THEN << [id |-> "spatial_filter", type |-> "spatial_filter",
                     operation |-> "filter_by_spatial_constraints",
                     parameters |-> [constraints |-> parsedQuery.spatialConstraints],
                     dependencies |-> <<>>] >>
            ELSE <<>>
        ragStep ==
            << [id |-> "rag_search", type |-> "rag_search",
                operation |-> "semantic_search",
                parameters |-> [intent |-> parsedQuery.intent,
                                entities |-> parsedQuery.entities,
                                filters |-> parsedQuery.filters,
                                temporalConstraints |-> parsedQuery.temporalConstraints],
                dependencies |-> IF spatial THEN <<"spatial_filter">> ELSE <<>>] >>
        analysisStep ==
            IF parsedQuery.intent.type \in {"analyze", "compare"}
            THEN << [id |-> "analysis", type |-> "analysis",
                     operation |-> IF parsedQuery.intent.type = "compare"
                                   THEN "compare_features" ELSE "analyze_features",
                     parameters |->
                        [analysisType |-> IF parsedQuery.intent.subtype # None
                                          THEN parsedQuery.intent.subtype[1]
                                          ELSE "general"],
                     dependencies |-> <<"rag_search">>] >>
            ELSE <<>>
        aggregationStep ==
            IF parsedQuery.intent.type = "search" /\ Len(parsedQuery.entities) > 1
            THEN << [id |-> "aggregation", type |-> "aggregation",
                     operation |-> "aggregate_results",
                     parameters |-> [groupBy |-> "type"],
                     dependencies |-> <<"rag_search">>] >>
            ELSE <<>>
        planKey == generateCacheKey(parsedQuery, "")
    IN IF planKey.threw THEN planKey
       ELSE Return([steps |-> spatialStep \o ragStep \o analysisStep \o aggregationStep,
                    estimatedCost |-> 1 + (IF spatial THEN 2 ELSE 0) + 5
                                        + (IF analysisStep # <<>> THEN 3 ELSE 0)
                                        + (IF aggregationStep # <<>> THEN 1 ELSE 0),
                    cacheKey |-> planKey.value])

\* what one constraint adds to the results of executeSpatialFilter
ConstraintFeatures(feats, grid, constraint) ==
    CASE constraint.type = "point" ->
            queryRadiusOn(feats, grid, constraint.geometry, 1)
      [] constraint.type = "radius" ->
            queryRadiusOn(feats, grid, constraint.geometry,
                          IF constraint.parameters.radius # 0
                          THEN constraint.parameters.radius ELSE 10)
      [] constraint.type = "bounds" -> queryOn(feats, grid, constraint.geometry)
      [] OTHER -> <<>>

executeSpatialFilter(step, feats, grid) ==
    LET constraints == step.parameters.constraints
    IN [spatiallyFilteredFeatures |->
            Flatten([i \in 1..Len(constraints) |->
                        ConstraintFeatures(feats, grid, constraints[i])]),
        constraintsApplied |-> Len(constraints)]

MinutesPerDay == 1440
\* the minute of the day at which the clock of the model starts
ClockStart == 720
\* new Date(dateString) of the date part of a time: the midnight before it
StartOfDay(time) == ((time + ClockStart) \div MinutesPerDay) * MinutesPerDay - ClockStart

\* startDate and endDate of a temporal constraint of a query parsed at
\* parsedAt, for the units of whole days
DateRange(temporal, parsedAt) ==
    LET days == CASE temporal.unit \in {"day", "days"} -> temporal.amount
                  [] temporal.unit \in {"week", "weeks"} -> temporal.amount * 7
    IN [start |-> StartOfDay(parsedAt - days * MinutesPerDay),
        end |-> StartOfDay(parsedAt)]

\* the RAGQuery that executeRAGSearch builds
BuildRagQuery(parsedQuery, originalText, previousResults, parsedAt) ==
    LET filtered ==
            IF "spatial_filter" \in DOMAIN previousResults
            THEN previousResults["spatial_filter"].spatiallyFilteredFeatures
            ELSE <<>>
        firstConstraint == parsedQuery.spatialConstraints[1]
        located ==
            IF "spatial_filter" \in DOMAIN previousResults
            THEN IF filtered # <<>>
                 THEN [location |-> Some(filtered[1].coordinates), radius |-> Some(50)]
                 ELSE [location |-> None, radius |-> None]
            ELSE IF /\ Len(parsedQuery.spatialConstraints) > 0
                    /\ firstConstraint.type \in {"point", "radius"}
                 THEN [location |-> Some(firstConstraint.geometry),
                       radius |-> Some(IF firstConstraint.type = "radius"
                                          /\ firstConstraint.parameters.radius # 0
                                       THEN firstConstraint.parameters.radius
                                       ELSE 50)]
                 ELSE [location |-> None, radius |-> None]
        typeFilters == SelectSeq(parsedQuery.filters, LAMBDA f : f.field = "type")
        confFilters == SelectSeq(parsedQuery.filters, LAMBDA f : f.field = "confidence")
        filters ==
            IF Len(parsedQuery.filters) > 0 \/ Len(parsedQuery.temporalConstraints) > 0
            THEN Some([type |-> IF typeFilters # <<>>
                                THEN Some([i \in 1..Len(typeFilters) |->
                                              typeFilters[i].value.text])
                                ELSE None,
                       dateRange |->
                            IF Len(parsedQuery.temporalConstraints) > 0
                            THEN Some(DateRange(parsedQuery.temporalConstraints[1],
                                                parsedAt))
                            ELSE None,
                       tags |-> None,
                       minConfidence |->
                            IF confFilters # <<>>
                            THEN Some(confFilters[1].value.micro \div 100)
                            ELSE None])
            ELSE None
    IN [text |-> originalText,
        spatialWeight |-> Some(3000),
        location |-> located.location,
        radius |-> located.radius,
        filters |-> filters]

\* analyzeFeatures without the test for no sources
analyzeFeatures_EmptyUnhandled(sources, analysisType) ==
    [analysis |->
        [totalFeatures |-> Len(sources),
         avgConfidence |-> 0,
         featureTypes |-> << >>,
         spatialDistribution |-> None]]

analyzeFeatures(sources, analysisType) ==
    IF sources = <<>> THEN [analysis |-> [message |-> "No features found for analysis"]]
    ELSE
    LET types == {sources[i].document.metadata.type : i \in 1..Len(sources)}
        locatedSources == SelectSeq(sources, LAMBDA s : s.document.metadata.location # None)
        lats == [i \in 1..Len(locatedSources) |->
                    locatedSources[i].document.metadata.location[1].latitude]
        lons == [i \in 1..Len(locatedSources) |->
                    locatedSources[i].document.metadata.location[1].longitude]
    IN [analysis |->
          [totalFeatures |-> Len(sources),
           avgConfidence |-> AverageScore(sources),
           featureTypes |->
               [t \in types |->
                   Cardinality({i \in 1..Len(sources) :
                                   sources[i].document.metadata.type = t})],
           spatialDistribution |->
               IF locatedSources = <<>> THEN None
               ELSE Some([center |-> [latitude |-> SumSeq(lats) \div Len(lats),
                                      longitude |-> SumSeq(lons) \div Len(lons)],
                          spread |-> [latRange |-> Max(Range(lats)) - Min(Range(lats)),
                                      lonRange |-> Max(Range(lons)) - Min(Range(lons))]])]]

compareFeatures_NoDistance(sources, analysisType) ==
    IF Len(sources) < 2
    THEN [comparison |-> [message |-> "Need at least 2 features for comparison"]]
    ELSE [comparison |->
            [featuresCompared |-> Len(sources),
             similarities |->
                 << [aspect |-> "confidence",
                     feature1 |-> sources[1].combinedScore,
                     feature2 |-> sources[2].combinedScore,
                     difference |-> Abs(sources[1].combinedScore
                                        - sources[2].combinedScore)] >>,
             differences |->
                 << [aspect |-> "type",
                     feature1 |-> sources[1].document.metadata.type,
                     feature2 |-> sources[2].document.metadata.type,
                     same |-> sources[1].document.metadata.type
                                 = sources[2].document.metadata.type] >>]]

compareFeatures(sources, analysisType) ==
    IF Len(sources) < 2
    THEN [comparison |-> [message |-> "Need at least 2 features for comparison"]]
    ELSE
    LET feature1 == sources[1]
        feature2 == sources[2]
        type1 == feature1.document.metadata.type
        type2 == feature2.document.metadata.type
        location1 == feature1.document.metadata.location
        location2 == feature2.document.metadata.location
    IN [comparison |->
          [featuresCompared |-> Len(sources),
           similarities |->
               << [aspect |-> "confidence",
                   feature1 |-> feature1.combinedScore,
                   feature2 |-> feature2.combinedScore,
                   difference |-> Abs(feature1.combinedScore - feature2.combinedScore)] >>,
           differences |->
               << [aspect |-> "type", feature1 |-> type1, feature2 |-> type2,
                   same |-> type1 = type2] >>
               \o (IF location1 # None /\ location2 # None
                   THEN << [aspect |-> "distance",
                            value |-> calculateDistance(location1[1], location2[1]),
                            unit |-> "km"] >>
                   ELSE <<>>)]]

HasRagResponse(previousResults) == "rag_search" \in DOMAIN previousResults

executeAnalysis(step, previousResults) ==
    IF ~HasRagResponse(previousResults)
    THEN [analysis |-> [message |-> "No data available for analysis"]]
    ELSE LET sources == previousResults["rag_search"].ragResponse.sources
         IN CASE step.operation = "analyze_features" ->
                    analyzeFeatures(sources, step.parameters.analysisType)
              [] step.operation = "compare_features" ->
                    compareFeatures(sources, step.parameters.analysisType)
              [] OTHER -> [analysis |-> [message |-> "Analysis type not supported"]]

executeAggregation(step, previousResults) ==
    IF ~HasRagResponse(previousResults)
    THEN [aggregation |-> [message |-> "No data available for aggregation"]]
    ELSE
    LET sources == previousResults["rag_search"].ragResponse.sources
        \* source.document.metadata[groupBy] || "unknown", groupBy being "type"
        KeyOf(source) == IF source.document.metadata.type # ""
                         THEN source.document.metadata.type ELSE "unknown"
        keys == Dedup([i \in 1..Len(sources) |-> KeyOf(sources[i])])
        Items(key) == SelectSeq(sources, LAMBDA s : KeyOf(s) = key)
    IN [aggregation |->
            [k \in 1..Len(keys) |->
                [category |-> keys[k],
                 count |-> Len(Items(keys[k])),
                 avgConfidence |-> AverageScore(Items(keys[k])),
                 items |-> SubSeq(Items(keys[k]), 1, Min({3, Len(Items(keys[k]))}))]],
        totalGroups |-> Len(keys),
        totalItems |-> Len(sources)]

OptionalResult(executedSteps, id) ==
    IF id \in DOMAIN executedSteps THEN Some(executedSteps[id]) ELSE None

getFinalResult(executedSteps, plan, parsedQuery) ==
    IF "rag_search" \notin DOMAIN executedSteps
    THEN [error |-> "No search results available"]
    ELSE LET ragResponse == executedSteps["rag_search"].ragResponse
         IN [answer |-> ragResponse.answer,
             sources |-> ragResponse.sources,
             spatialContext |-> ragResponse.spatialContext,
             queryIntent |-> parsedQuery.intent,
             analysis |-> OptionalResult(executedSteps, "analysis"),
             aggregation |-> OptionalResult(executedSteps, "aggregation"),
             spatialFiltering |-> OptionalResult(executedSteps, "spatial_filter")]

calculateResultConfidence(result, parsedQuery) ==
    LET fromParsing == (3 * parsedQuery.confidence) \div 10
        fromSources ==
            IF "sources" \in DOMAIN result /\ result.sources # <<>>
            THEN AverageScore(result.sources) \div 2 ELSE 0
        forAnalysis ==
            IF "analysis" \in DOMAIN result /\ result.analysis # None THEN 1000 ELSE 0
        forContext ==
            IF "spatialContext" \in DOMAIN result
               /\ result.spatialContext.queryLocation # None
            THEN 1000 ELSE 0
    IN Min({Scale, fromParsing + fromSources + forAnalysis + forContext})

\* A QueryResult.  data is None for null, error is None when the field is
\* not set.
QueryResult(success, data, executionTime, stepsExecuted, cacheHit, confidence, error) ==
    [success |-> success,
     data |-> data,
     metadata |-> [executionTime |-> executionTime,
                   stepsExecuted |-> stepsExecuted,
                   cacheHit |-> cacheHit,
                   confidence |-> confidence],
     error |-> error]

\* the result of the catch block of executeQuery, and of processQuery with
\* an executionTime of 0
FailureResult_NoError(message, executionTime) ==
    QueryResult(FALSE, None, executionTime, 0, FALSE, 0, None)

FailureResult(message, executionTime) ==
    QueryResult(FALSE, None, executionTime, 0, FALSE, 0, Some(message))

\* what executePlan returns once every step has run
PlanResult_StepsNotCounted(executedSteps, plan, parsedQuery) ==
    LET finalResult == getFinalResult(executedSteps, plan, parsedQuery)
    IN QueryResult(TRUE, Some(finalResult), 0, 0, FALSE,
                   calculateResultConfidence(finalResult, parsedQuery), None)

PlanResult(executedSteps, plan, parsedQuery) ==
    LET finalResult == getFinalResult(executedSteps, plan, parsedQuery)
    IN QueryResult(TRUE, Some(finalResult), 0, Len(plan.steps), FALSE,
                   calculateResultConfidence(finalResult, parsedQuery), None)

CacheKeys(cache) == {cache[i].key : i \in 1..Len(cache)}
CacheEntry(cache, key) == cache[CHOOSE i \in 1..Len(cache) : cache[i].key = key]

\* checkCache serving an entry that is exactly CACHE_TTL old
checkCache_Inclusive(cache, cacheKey, time) ==
    IF cacheKey \in CacheKeys(cache)
       /\ time - CacheEntry(cache, cacheKey).timestamp <= CACHE_TTL
    THEN Some(CacheEntry(cache, cacheKey).result)
    ELSE None

checkCache(cache, cacheKey, time) ==
    IF cacheKey \in CacheKeys(cache)
       /\ time - CacheEntry(cache, cacheKey).timestamp < CACHE_TTL
    THEN Some(CacheEntry(cache, cacheKey).result)
    ELSE None

\* cacheResult: the cache afterwards and the key it dropped, if any
cacheResult_NotStored(cache, cacheKey, result, time) ==
    [cache |-> cache, evicted |-> None]

cacheResult(cache, cacheKey, result, time) ==
    LET entry == [key |-> cacheKey, result |-> result, timestamp |-> time]
        stored == IF cacheKey \in CacheKeys(cache)
                  THEN [i \in 1..Len(cache) |->
                           IF cache[i].key = cacheKey THEN entry ELSE cache[i]]
                  ELSE Append(cache, entry)
    IN IF Len(stored) > MaxCacheEntries
       THEN [cache |-> Tail(stored), evicted |-> Some(stored[1].key)]
       ELSE [cache |-> stored, evicted |-> None]

----------------------------------------------------------------------------
(* src/lib/query/query-engine.ts: GeographicQueryEngine *)

validateQuery(queryText) ==
    LET issues ==
            (IF Len(trim(queryText)) = 0 THEN <<"Query cannot be empty">> ELSE <<>>)
            \o (IF Len(queryText) > 500
                THEN <<"Query is too long (max 500 characters)">> ELSE <<>>)
            \o (IF Len(queryText) < 3
                THEN <<"Query is too short (min 3 characters)">> ELSE <<>>)
            \o (IF CharsOf(queryText) \cap LetterChars = {}
                THEN <<"Query must contain at least some text">> ELSE <<>>)
    IN [isValid |-> issues = <<>>, issues |-> issues]

\* the confidence gate of processQuery
BelowThreshold_Never(parsedQuery, threshold) == FALSE

BelowThreshold(parsedQuery, threshold) == parsedQuery.confidence < threshold

\* the result of processQuery for a parse below the threshold
GateResult(parsedQuery) ==
    QueryResult(FALSE, None, 0, 0, FALSE, parsedQuery.confidence,
                Some("Query parsing confidence (" \o toFixed2(parsedQuery.confidence)
                     \o ") is below threshold. Please rephrase your query."))

----------------------------------------------------------------------------
(* The engine at work.  A processQuery call runs in a slot: from the call to *)
(* its first suspension (ProcessQuery), one step at a time (ExecuteStep),   *)
(* suspended in the embedding provider during the rag_search step           *)
(* (EmbeddingReturns, EmbeddingFails), and to its return (CompletePlan).    *)
(* Of the code of a call only the provider's timer waits for another task,  *)
(* so the clock, ingestion and the index operations move while no call is   *)
(* between two steps.                                                       *)

\* Bounds: the number of processQuery calls of a behaviour, the last minute
\* of the clock, the number of documents added.
MaxCalls == 2
MaxTime == 5
MaxDocuments == 2

Gibberish == "xx"
FindParks == "find parks"
CompareNearby == "compare parks near 37.7749,-122.4194"
NotLatin1 == "find parks €"
AnalyzeParks == "analyze parks"
Queries == {Gibberish, FindParks, CompareNearby, NotLatin1, AnalyzeParks}

ParsedOf == [queryText \in Queries |-> parseQuery(queryText)]

Thresholds == {DefaultConfidenceThreshold, 8000}
TickSteps == {CACHE_TTL - 1, CACHE_TTL}

Document(id, content, type, location) ==
    [id |-> id, content |-> content,
     metadata |-> [type |-> type, location |-> location, timestamp |-> 0,
                   source |-> "survey", tags |-> <<"park">>, confidence |-> None],
     embedding |-> None,
     spatialContext |-> None]

ParkDocument == Document("doc1", "Golden Gate Park is a large urban park. It has lakes.",
                         "feature", None)
LocatedDocument == Document("doc2", "Mission Dolores Park. A city park.", "feature",
                            Some(SanFrancisco))
EngineDocuments == {ParkDocument, LocatedDocument}

\* two documents that come with an embedding of the provider's length
SurveyedSanFrancisco ==
    [Document("doc3", "Presidio. A park.", "feature", Some(SanFrancisco))
        EXCEPT !.embedding = Some([i \in 1..dimensions |-> 1])]
SurveyedLosAngeles ==
    [Document("doc4", "Griffith Park.", "feature", Some(LosAngeles))
        EXCEPT !.embedding = Some([i \in 1..dimensions |-> i])]
\* the lists of documents the engine is initialized with
EngineBatches == {<<SurveyedSanFrancisco, SurveyedLosAngeles>>}

EngineFeatures == {Feature("f1", "point", SanFrancisco)}
EngineSlots == {1}

\* what the provider returns for each text it is asked about
EmbeddingOf ==
    [text \in Queries \cup {document.content : document \in EngineDocuments} |->
        generateEmbedding(text)]

StoreNow == Store(documents, embeddings, spatialIndex)

----------------------------------------------------------------------------
(* The Vector Store and the RAG engine on their own: addDocument and        *)
(* removeDocument of the store, initialize and query of the engine.  lastOp *)
(* holds the operation that ran last and opCount the number of operations.  *)

\* GeographicVectorStore.addDocuments: addDocument suspends nowhere, so the
\* documents are added one after the other, in the order of the list
RECURSIVE storeAddDocuments(_, _)
storeAddDocuments(store, docs) ==
    IF docs = << >> THEN store
    ELSE storeAddDocuments(addDocument(store, Head(docs)), Tail(docs))

\* initialize gives a document that has no embedding the provider's vector of
\* its content, enhanced with the spatial features of the document
WithGeneratedEmbedding(document, baseEmbedding) ==
    IF document.embedding = None
    THEN [document EXCEPT !.embedding =
             Some(enhanceWithSpatialContext(baseEmbedding, document))]
    ELSE document

\* GeographicRAGEngine.initialize, from the point where the provider has
\* returned the embeddings
ragEngineInitialize(store, docs) ==
    storeAddDocuments(store,
        [i \in 1..Len(docs) |->
            WithGeneratedEmbedding(docs[i], EmbeddingOf[docs[i].content])])

\* an embedding, of the provider's length, that a document brings with it
PresetEmbedding == [i \in 1..dimensions |-> 1]

StoreDocuments ==
    {Document("doc1", ParkDocument.content, "feature", Some(SanFrancisco)),
     Document("doc1", ParkDocument.content, "feature", Some(LosAngeles)),
     Document("doc2", LocatedDocument.content, "feature", None),
     [Document("doc2", LocatedDocument.content, "feature", Some(SanFrancisco))
         EXCEPT !.embedding = Some(PresetEmbedding)]}
StoreIds == {document.id : document \in StoreDocuments}

\* the lists of documents initialize is called with
Batches == UNION {[1..n -> StoreDocuments] : n \in 1..2}

RagQueryFor(text, location, radius) ==
    [text |-> text, spatialWeight |-> None, location |-> location,
     radius |-> radius, filters |-> None]
RagQueries == {RagQueryFor(FindParks, None, None),
               RagQueryFor(FindParks, Some(SanFrancisco), Some(50))}

\* addDocument that has set the document table only
AddDocument_DocumentsOnly(document) ==
    /\ opCount < MaxOps
    /\ documents' = MapSet(documents, document)
    /\ lastOp' = [op |-> "addDocument", document |-> document]
    /\ opCount' = opCount + 1
    /\ UNCHANGED <<indexVars, embeddings, spatialIndex, engineVars>>

AddDocument(document) ==
    /\ opCount < MaxOps
    /\ LET after == addDocument(StoreNow, document)
       IN /\ documents' = after.documents
          /\ embeddings' = after.embeddings
          /\ spatialIndex' = after.spatialIndex
    /\ lastOp' = [op |-> "addDocument", document |-> document]
    /\ opCount' = opCount + 1
    /\ UNCHANGED <<indexVars, engineVars>>

RemoveDocument(id) ==
    /\ opCount < MaxOps
    /\ LET after == removeDocument(StoreNow, id)
       IN /\ documents' = after.store.documents
          /\ embeddings' = after.store.embeddings
          /\ spatialIndex' = after.store.spatialIndex
          /\ lastOp' = [op |-> "removeDocument", id |-> id, ret |-> after.ret]
    /\ opCount' = opCount + 1
    /\ UNCHANGED <<indexVars, engineVars>>

Initialize(docs) ==
    /\ opCount < MaxOps
    /\ LET after == ragEngineInitialize(StoreNow, docs)
       IN /\ documents' = after.documents
          /\ embeddings' = after.embeddings
          /\ spatialIndex' = after.spatialIndex
    /\ lastOp' = [op |-> "initialize", documents |-> docs]
    /\ opCount' = opCount + 1
    /\ UNCHANGED <<indexVars, engineVars>>

RagQuery(ragQuery) ==
    /\ opCount < MaxOps
    /\ lastOp' = [op |-> "query", ragQuery |-> ragQuery,
                  ret |-> ragEngineQuery(StoreNow, ragQuery, EmbeddingOf[ragQuery.text])]
    /\ opCount' = opCount + 1
    /\ UNCHANGED <<indexVars, storeVars, engineVars>>

NextStore ==
    \/ \E document \in StoreDocuments : AddDocument(document)
    \/ \E id \in StoreIds : RemoveDocument(id)
    \/ \E docs \in Batches : Initialize(docs)
    \/ \E ragQuery \in RagQueries : RagQuery(ragQuery)

\* An empty store is what the engine's constructor makes.
SpecStore == InitIndex /\ [][NextStore]_vars

----------------------------------------------------------------------------
(* Claims about the Vector Store and the RAG engine, checked under SpecStore. *)

\* the cells of the store's grid in whose bucket id is
CellsOf(id) == {k \in DOMAIN spatialIndex : id \in Range(spatialIndex[k])}

\* C12: addDocument is idempotent per id. Adding the document that was added
\* just before leaves the document table, the embedding table and the grid
\* as they are; and after a document with a location is added, its id is in
\* the bucket of the cell of that location and of no other cell.
C12_AddIdempotent ==
    [][(lastOp'.op = "addDocument" /\ opCount' = opCount + 1) =>
          /\ (lastOp.op = "addDocument" /\ lastOp.document = lastOp'.document)
                => UNCHANGED storeVars
          /\ lastOp'.document.metadata.location # None =>
                \A k \in DOMAIN spatialIndex' :
                    lastOp'.document.id \in Range(spatialIndex'[k])
                        => k = storeGridKey(lastOp'.document.metadata.location[1])]_vars

\* C13: after removeDocument(id) returned true the id is in the document
\* table, in the embedding table and in the buckets of the grid no longer,
\* whatever was added before.
C13_RemoveDocumentContract ==
    (lastOp.op = "removeDocument" /\ lastOp.ret) =>
        /\ lastOp.id \notin DocumentIds(documents)
        /\ lastOp.id \notin DOMAIN embeddings
        /\ CellsOf(lastOp.id) = {}

\* every stored document has the embedding that initialize generated for it:
\* the provider's vector of its content with the spatial enhancement
GeneratedOnly ==
    /\ documents # << >>
    /\ \A i \in 1..Len(documents) :
          /\ documents[i].embedding
                = Some(enhanceWithSpatialContext(EmbeddingOf[documents[i].content],
                                                 documents[i]))
          /\ documents[i].id \in DOMAIN embeddings
          /\ embeddings[documents[i].id] = documents[i].embedding[1]

\* C14: when the stored embeddings are those that initialize generated, for
\* documents with or without a location, a query compares its text-only
\* vector with vectors of its own length and does not fail with a
\* vector-length error.
C14_QueryVectorsMatch ==
    (lastOp.op = "query" /\ GeneratedOnly) =>
        /\ ~lastOp.ret.threw
        /\ \A id \in DOMAIN embeddings :
              Len(embeddings[id]) = Len(EmbeddingOf[lastOp.ragQuery.text])

----------------------------------------------------------------------------
(* The processQuery calls of the engine. *)

InFlight == {r \in Slots : requests[r] # Idle}
\* no call is between two steps
Quiescent == \A r \in Slots : requests[r].pc \in {"idle", "embedding"}

\* what generateCacheKey and createExecutionPlan give for each text (neither
\* depends on anything but the text)
CacheKeyOf == [queryText \in Queries |->
                  generateCacheKey(ParsedOf[queryText], queryText)]
PlanOf == [queryText \in Queries |-> createExecutionPlan(ParsedOf[queryText])]

\* what a call did before it returned: the plan it executed, if it came to
\* executePlan, the ids of the steps it started, in the order in which it
\* started them, and the number of times it asked the provider for an
\* embedding
PlanUsed(request) == IF request = Idle THEN None ELSE Some(request.plan)
StartedBy(request) == IF request = Idle THEN << >> ELSE request.started
EmbeddingCallsOf(request) == IF request = Idle THEN 0 ELSE request.embeddingCalls

\* the call in slot r returns result
Returns(r, queryText, startTime, result, did, evicted) ==
    /\ calls' = Append(calls, [text |-> queryText, slot |-> r,
                               startTime |-> startTime, endTime |-> now,
                               threshold |-> confidenceThreshold,
                               result |-> result, did |-> did, evicted |-> evicted,
                               plan |-> PlanUsed(requests[r]),
                               started |-> StartedBy(requests[r]),
                               embeddingCalls |-> EmbeddingCallsOf(requests[r])])
    /\ requests' = [requests EXCEPT ![r] = Idle]

\* the catch block of executeQuery, reporting the steps that had run
Fails_CountsSteps(r, message) ==
    Returns(r, requests[r].text, requests[r].startTime,
            [FailureResult(message, now - requests[r].startTime) EXCEPT
                !.metadata.stepsExecuted = Cardinality(DOMAIN requests[r].executedSteps)],
            requests[r].did, None)

\* the catch block of executeQuery
Fails(r, message) ==
    Returns(r, requests[r].text, requests[r].startTime,
            FailureResult(message, now - requests[r].startTime),
            requests[r].did, None)

\* processQuery and executeQuery up to the call of executePlan
Starts(r, queryText, parsedQuery, cacheKey, cached, executionPlan) ==
    IF BelowThreshold(parsedQuery, confidenceThreshold)
    THEN Returns(r, queryText, now, GateResult(parsedQuery), {"parse"}, None)
    ELSE IF cacheKey.threw
    THEN Returns(r, queryText, now, FailureResult(cacheKey.error, 0),
                 {"parse", "cacheKey"}, None)
    ELSE IF cached # None
    THEN Returns(r, queryText, now,
                 [cached[1] EXCEPT !.metadata.cacheHit = TRUE],
                 {"parse", "cacheKey", "cacheRead"}, None)
    ELSE IF executionPlan.threw
    THEN Returns(r, queryText, now, FailureResult(executionPlan.error, 0),
                 {"parse", "cacheKey", "cacheRead", "plan"}, None)
    ELSE /\ requests' = [requests EXCEPT ![r] =
                            [pc |-> "running", text |-> queryText,
                             startTime |-> now, stepIndex |-> 1,
                             plan |-> executionPlan.value,
                             executedSteps |-> << >>, ragQuery |-> None,
                             started |-> << >>, embeddingCalls |-> 0,
                             did |-> {"parse", "cacheKey", "cacheRead", "plan"}]]
         /\ UNCHANGED calls

\* the cache entry executeQuery finds for the key, if generateCacheKey
\* returned one
CachedFor(cacheKey) ==
    IF cacheKey.threw THEN None ELSE checkCache(queryCache, cacheKey.value, now)

ProcessQuery(r, queryText) ==
    /\ requests[r] = Idle
    /\ Len(calls) + Cardinality(InFlight) < MaxCalls
    /\ Starts(r, queryText, ParsedOf[queryText], CacheKeyOf[queryText],
              CachedFor(CacheKeyOf[queryText]), PlanOf[queryText])
    /\ UNCHANGED <<indexVars, lastOp, opCount, storeVars, queryCache,
                   confidenceThreshold, now>>

Record(executedSteps, id, stepResult) ==
    [i \in DOMAIN executedSteps \cup {id} |->
        IF i = id THEN stepResult ELSE executedSteps[i]]

\* the step types executeStep has a case for
StepTypes == {"spatial_filter", "rag_search", "analysis", "aggregation"}

\* executeStep for the steps that wait for nothing
StepResult(step, executedSteps) ==
    CASE step.type = "spatial_filter" ->
             executeSpatialFilter(step, features, spatialGrid)
      [] step.type = "analysis" -> executeAnalysis(step, executedSteps)
      [] step.type = "aggregation" -> executeAggregation(step, executedSteps)

RunStep_NoDependencyCheck(r, request, step) ==
    IF step.type \notin StepTypes
    THEN Fails(r, "Unknown step type: " \o step.type)
    ELSE IF step.type = "rag_search"
    THEN /\ requests' = [requests EXCEPT ![r] =
                            [request EXCEPT
                                !.did = @ \cup {"step"},
                                !.started = Append(@, step.id),
                                !.embeddingCalls = @ + 1,
                                !.pc = "embedding",
                                !.ragQuery =
                                    Some(BuildRagQuery(ParsedOf[request.text],
                                                       request.text,
                                                       request.executedSteps,
                                                       request.startTime))]]
         /\ UNCHANGED calls
    ELSE /\ requests' = [requests EXCEPT ![r] =
                            [request EXCEPT
                                !.did = @ \cup {"step"},
                                !.started = Append(@, step.id),
                                !.stepIndex = @ + 1,
                                !.executedSteps =
                                    Record(@, step.id,
                                           StepResult(step, request.executedSteps))]]
         /\ UNCHANGED calls

\* the call of slot r, in the state request, takes step
RunStep(r, request, step) ==
    IF \E dep \in Range(step.dependencies) : dep \notin DOMAIN request.executedSteps
    THEN Fails(r, "Dependencies not met for step " \o step.id)
    ELSE IF step.type \notin StepTypes
    THEN Fails(r, "Unknown step type: " \o step.type)
    ELSE IF step.type = "rag_search"
    THEN /\ requests' = [requests EXCEPT ![r] =
                            [request EXCEPT
                                !.did = @ \cup {"step"},
                                !.started = Append(@, step.id),
                                !.embeddingCalls = @ + 1,
                                !.pc = "embedding",
                                !.ragQuery =
                                    Some(BuildRagQuery(ParsedOf[request.text],
                                                       request.text,
                                                       request.executedSteps,
                                                       request.startTime))]]
         /\ UNCHANGED calls
    ELSE /\ requests' = [requests EXCEPT ![r] =
                            [request EXCEPT
                                !.did = @ \cup {"step"},
                                !.started = Append(@, step.id),
                                !.stepIndex = @ + 1,
                                !.executedSteps =
                                    Record(@, step.id,
                                           StepResult(step, request.executedSteps))]]
         /\ UNCHANGED calls

\* one turn of the loop of executePlan, up to the await of the step
ExecuteStep(r) ==
    /\ requests[r].pc = "running"
    /\ requests[r].stepIndex <= Len(requests[r].plan.steps)
    /\ RunStep(r, requests[r], requests[r].plan.steps[requests[r].stepIndex])
    /\ UNCHANGED <<indexVars, lastOp, opCount, storeVars, queryCache,
                   confidenceThreshold, now>>

\* the rag_search step of the call of slot r ends with ragResponse
Responds(r, request, ragResponse) ==
    IF ragResponse.threw
    THEN Fails(r, ragResponse.error)
    ELSE /\ requests' = [requests EXCEPT ![r] =
                            [request EXCEPT
                                !.pc = "running",
                                !.stepIndex = @ + 1,
                                !.ragQuery = None,
                                !.executedSteps =
                                    Record(@, "rag_search",
                                           [ragResponse |-> ragResponse.value,
                                            queryUsed |-> request.ragQuery[1]])]]
         /\ UNCHANGED calls

\* GeographicRAGEngine.query keeping the embedding of the query text in the
\* store's embedding table
EmbeddingReturns_KeepsEmbedding(r) ==
    /\ requests[r].pc = "embedding"
    /\ Responds(r, requests[r],
                ragEngineQuery(StoreNow, requests[r].ragQuery[1],
                               EmbeddingOf[requests[r].ragQuery[1].text]))
    /\ embeddings' = [id \in DOMAIN embeddings \cup {requests[r].text} |->
                          IF id = requests[r].text
                          THEN EmbeddingOf[requests[r].ragQuery[1].text]
                          ELSE embeddings[id]]
    /\ UNCHANGED <<indexVars, lastOp, opCount, documents, spatialIndex, queryCache,
                   confidenceThreshold, now>>

\* the provider returns the embedding of the query text: the rest of
\* GeographicRAGEngine.query and of executeRAGSearch
EmbeddingReturns(r) ==
    /\ requests[r].pc = "embedding"
    /\ Responds(r, requests[r],
                ragEngineQuery(StoreNow, requests[r].ragQuery[1],
                               EmbeddingOf[requests[r].ragQuery[1].text]))
    /\ UNCHANGED <<indexVars, lastOp, opCount, storeVars, queryCache,
                   confidenceThreshold, now>>

EmbeddingFails_Retries(r) ==
    /\ requests[r].pc = "embedding"
    /\ IF requests[r].embeddingCalls < 2
       THEN /\ requests' = [requests EXCEPT ![r].pc = "running", ![r].ragQuery = None]
            /\ UNCHANGED calls
       ELSE Fails(r, "Embedding provider failed")
    /\ UNCHANGED <<indexVars, lastOp, opCount, storeVars, queryCache,
                   confidenceThreshold, now>>

\* the provider rejects: query, executeRAGSearch, executeStep and executePlan
\* reject in turn, and the catch block of executeQuery returns
EmbeddingFails(r) ==
    /\ requests[r].pc = "embedding"
    /\ Fails(r, "Embedding provider failed")
    /\ UNCHANGED <<indexVars, lastOp, opCount, storeVars, queryCache,
                   confidenceThreshold, now>>

\* executeQuery once executePlan returned result: cacheResult and return
Completes(r, request, result, cached) ==
    /\ queryCache' = cached.cache
    /\ Returns(r, request.text, request.startTime,
               [result EXCEPT !.metadata.executionTime = now - request.startTime,
                              !.metadata.cacheHit = FALSE],
               request.did \cup {"cacheWrite"}, cached.evicted)

\* executeQuery caching what it got as a failure
CachesAndCompletes_AsFailure(r, request, cacheKey, result) ==
    Completes(r, request, result,
              cacheResult(queryCache, cacheKey, [result EXCEPT !.success = FALSE], now))

CachesAndCompletes(r, request, cacheKey, result) ==
    Completes(r, request, result, cacheResult(queryCache, cacheKey, result, now))

\* every step has run: the end of executePlan and of executeQuery
CompletePlan(r) ==
    /\ requests[r].pc = "running"
    /\ requests[r].stepIndex > Len(requests[r].plan.steps)
    /\ CachesAndCompletes(r, requests[r], CacheKeyOf[requests[r].text].value,
                          PlanResult(requests[r].executedSteps,
                                     requests[r].plan,
                                     ParsedOf[requests[r].text]))
    /\ UNCHANGED <<indexVars, lastOp, opCount, storeVars, confidenceThreshold, now>>

Tick(minutes) ==
    /\ Quiescent
    /\ now + minutes <= MaxTime
    /\ now' = now + minutes
    /\ UNCHANGED <<indexVars, lastOp, opCount, storeVars, queryCache,
                   confidenceThreshold, requests, calls>>

\* GeographicRAGEngine.addDocuments([document]) for a document not yet stored
AddDocuments(document) ==
    /\ Quiescent
    /\ Len(documents) < MaxDocuments
    /\ document.id \notin DocumentIds(documents)
    /\ LET after == ragEngineAddDocument(StoreNow, document, EmbeddingOf[document.content])
       IN /\ documents' = after.documents
          /\ embeddings' = after.embeddings
          /\ spatialIndex' = after.spatialIndex
    /\ UNCHANGED <<indexVars, lastOp, opCount, engineVars>>

\* An engine over an empty index and an empty store, with the threshold its
\* options give it.
Init ==
    /\ features = << >>
    /\ spatialGrid = << >>
    /\ lastOp = NoOp
    /\ opCount = 0
    /\ documents = << >>
    /\ embeddings = << >>
    /\ spatialIndex = << >>
    /\ queryCache = << >>
    /\ confidenceThreshold \in Thresholds
    /\ now = 0
    /\ requests = [r \in Slots |-> Idle]
    /\ calls = << >>

Next ==
    \/ \E r \in EngineSlots, queryText \in Queries : ProcessQuery(r, queryText)
    \/ \E r \in EngineSlots : ExecuteStep(r)
    \/ \E r \in EngineSlots : EmbeddingReturns(r)
    \/ \E r \in EngineSlots : EmbeddingFails(r)
    \/ \E r \in EngineSlots : CompletePlan(r)
    \/ \E minutes \in TickSteps : Tick(minutes)
    \/ \E document \in EngineDocuments : AddDocuments(document)
    \/ \E docs \in EngineBatches :
          /\ Quiescent
          /\ documents = << >>
          /\ Len(docs) <= MaxDocuments
          /\ Initialize(docs)
    \/ \E feature \in EngineFeatures : Quiescent /\ features = << >> /\ Insert(feature)

Spec == Init /\ [][Next]_vars

----------------------------------------------------------------------------
(* Properties of processQuery, over the calls that have returned. *)

Returned == 1..Len(calls)
\* the call came to executePlan: it passed the gate and missed the cache
Planned(call) == call.plan # None
ParserConfidence(call) == ParsedOf[call.text].confidence

\* call j is a later call with the text of call i
Repeats(i, j) == i < j /\ calls[i].text = calls[j].text

CachedBefore(i, j) ==
    /\ Repeats(i, j)
    /\ calls[i].result.success
    /\ ~calls[i].result.metadata.cacheHit
    /\ calls[i].endTime <= calls[j].startTime
    /\ calls[j].startTime - calls[i].endTime < CACHE_TTL
    /\ \A k \in i..j : calls[k].evicted = None

C2_GateSkipsExecution ==
    \A i \in Returned :
        ParserConfidence(calls[i]) < calls[i].threshold
        => /\ calls[i].result.success = FALSE
           /\ calls[i].result.metadata.confidence = ParserConfidence(calls[i])
           /\ calls[i].result.metadata.stepsExecuted = 0
           /\ calls[i].did = {"parse"}

C2_Witness ==
    \E i \in Returned :
        /\ ParserConfidence(calls[i]) < calls[i].threshold
        /\ calls[i].result = GateResult(ParsedOf[calls[i].text])

\* C3: under the default threshold a 2-character gibberish query is rejected
\* by the confidence gate: success = false, with a confidence that is at most
\* the threshold.
C3_GibberishRejected ==
    \A i \in Returned :
        calls[i].text = Gibberish /\ calls[i].threshold = DefaultConfidenceThreshold
        => /\ calls[i].result.success = FALSE
           /\ calls[i].result.metadata.confidence <= calls[i].threshold

\* C4: a text validateQuery reports invalid is rejected before parsing:
\* success = false, and no parse, plan, step or cache access for it.
C4_InvalidRejectedBeforeParsing ==
    \A i \in Returned :
        ~validateQuery(calls[i].text).isValid
        => /\ calls[i].result.success = FALSE
           /\ calls[i].did = {}

\* C5: whatever fails, the call returns a QueryResult; every returned
\* QueryResult has success = false exactly when its error is set, and data
\* is null in that case.
C5_FailuresReportedInline ==
    \A i \in Returned :
        LET result == calls[i].result
        IN /\ DOMAIN result = {"success", "data", "metadata", "error"}
           /\ result.success \in BOOLEAN
           /\ (result.success = FALSE) <=> (result.error # None)
           /\ result.success = FALSE => result.data = None

\* a call failed in cache-key generation, another in a step
C5_Witness ==
    /\ \E i \in Returned :
          /\ calls[i].did = {"parse", "cacheKey"}
          /\ calls[i].result.success = FALSE
          /\ calls[i].result.error # None
    /\ \E i \in Returned :
          /\ "step" \in calls[i].did
          /\ calls[i].result.success = FALSE
          /\ calls[i].result.error # None

\* the call is a request with intent compare that succeeded with at least
\* two sources, the first two of which have a location
ComparesLocated(call) ==
    /\ call.result.success
    /\ ParsedOf[call.text].intent.type = "compare"
    /\ Len(call.result.data[1].sources) >= 2
    /\ call.result.data[1].sources[1].document.metadata.location # None
    /\ call.result.data[1].sources[2].document.metadata.location # None

\* the entries of aspect distance among the differences of the comparison in
\* the data of a result
DistanceDifferences(data) ==
    IF data.analysis = None \/ "differences" \notin DOMAIN data.analysis[1].comparison
    THEN {}
    ELSE {d \in Range(data.analysis[1].comparison.differences) : d.aspect = "distance"}

\* C16: when a request with intent compare returns at least two sources and
\* the first two have a location, the comparison of the result holds a
\* differences entry of aspect distance whose value is the haversine
\* distance between the locations of these two sources.
C16_CompareReportsDistance ==
    \A i \in Returned :
        ComparesLocated(calls[i]) =>
            \E d \in DistanceDifferences(calls[i].result.data[1]) :
                d.value = calculateDistance(
                    calls[i].result.data[1].sources[1].document.metadata.location[1],
                    calls[i].result.data[1].sources[2].document.metadata.location[1])

\* A compare request returned the San Francisco and the Los Angeles document
\* and reported the 559 km between them.
C16_Witness ==
    \E i \in Returned :
        /\ ComparesLocated(calls[i])
        /\ ~calls[i].result.metadata.cacheHit
        /\ \E d \in DistanceDifferences(calls[i].result.data[1]) :
              /\ d.value = calculateDistance(SanFrancisco, LosAngeles)
              /\ d.value \div 1000 = 559

NoRepeats(s) == Cardinality(Range(s)) = Len(s)

\* C19: no retries. A call asks the provider for an embedding at most once
\* and starts no step twice; a call during which the provider failed asked
\* it exactly once, and returned success = false with the provider's failure
\* as its error.
C19_NoRetries ==
    /\ \A r \in InFlight :
          /\ requests[r].embeddingCalls <= 1
          /\ NoRepeats(requests[r].started)
    /\ \A i \in Returned :
          /\ calls[i].embeddingCalls <= 1
          /\ NoRepeats(calls[i].started)
          /\ calls[i].result.error = Some("Embedding provider failed") =>
                /\ calls[i].embeddingCalls = 1
                /\ ~calls[i].result.success
                /\ calls[i].result.data = None

\* The provider failed during the rag_search step of a call that had run
\* its spatial_filter step before: the call returned the failure after one
\* request to the provider, and analysis, the step after, never started.
C19_Witness ==
    \E i \in Returned :
        /\ calls[i].result.error = Some("Embedding provider failed")
        /\ calls[i].started = <<"spatial_filter", "rag_search">>
        /\ Len(calls[i].plan[1].steps) = 3
        /\ calls[i].embeddingCalls = 1
        /\ ~calls[i].result.success

\* the call that returns in this step, if one does
Returning == IF Len(calls') > Len(calls) THEN {calls'[Len(calls')]} ELSE {}

\* the cache holds an entry for the key of the text
HasEntry(cache, queryText) ==
    /\ ~CacheKeyOf[queryText].threw
    /\ CacheKeyOf[queryText].value \in CacheKeys(cache)

\* the age at time of the entry of the text
EntryAge(cache, queryText, time) ==
    time - CacheEntry(cache, CacheKeyOf[queryText].value).timestamp

\* the result served from the cache for the text
Served(cache, queryText) ==
    [CacheEntry(cache, CacheKeyOf[queryText].value).result EXCEPT
        !.metadata.cacheHit = TRUE]

\* the cache holds the result of the call, stored at time
StoredAt(cache, call, time) ==
    /\ HasEntry(cache, call.text)
    /\ EntryAge(cache, call.text, time) = 0
    /\ CacheEntry(cache, CacheKeyOf[call.text].value).result
          = [call.result EXCEPT !.metadata.executionTime = 0]

\* the call executed a plan while the cache held an entry for its text that
\* was CACHE_TTL old or older when the call began
ExecutedOnStale(call) ==
    /\ Planned(call)
    /\ HasEntry(queryCache, call.text)
    /\ EntryAge(queryCache, call.text, call.startTime) >= CACHE_TTL

\* C24, as stated, for the entry that is 5 minutes old or older: the call
\* plans and executes again, returns cacheHit = false, and replaces the
\* entry with the new result and a fresh timestamp.
C24_StaleEntryReplaced ==
    [][\A call \in Returning :
          ExecutedOnStale(call) =>
              /\ ~call.result.metadata.cacheHit
              /\ StoredAt(queryCache', call, now)]_vars

\* C24, amended: a call is served from the cache only when the entry of its
\* text is less than CACHE_TTL old at the call, and such a call reads the
\* cache and returns the stored result with cacheHit = true: no plan, no
\* step, no request to the provider, no write to the cache.  A call that
\* finds an entry of its text that is CACHE_TTL old or older makes a plan and
\* executes it, and returns cacheHit = false; when the execution succeeds
\* the entry holds the new result with the time of the return, and when it
\* fails the old entry stays as it was.
C24_CacheServedWhileFresh ==
    [][/\ \A call \in Returning :
             /\ call.result.metadata.cacheHit =>
                   /\ ~Planned(call)
                   /\ HasEntry(queryCache, call.text)
                   /\ EntryAge(queryCache, call.text, now) < CACHE_TTL
                   /\ call.result = Served(queryCache, call.text)
                   /\ call.did = {"parse", "cacheKey", "cacheRead"}
                   /\ call.started = << >>
                   /\ call.embeddingCalls = 0
                   /\ queryCache' = queryCache
             /\ (/\ ~Planned(call)
                 /\ HasEntry(queryCache, call.text)
                 /\ ~BelowThreshold(ParsedOf[call.text], confidenceThreshold)) =>
                   /\ EntryAge(queryCache, call.text, now) < CACHE_TTL
                   /\ call.result.metadata.cacheHit
             /\ ExecutedOnStale(call) =>
                   /\ ~call.result.metadata.cacheHit
                   /\ "plan" \in call.did
                   /\ IF call.result.success
                      THEN StoredAt(queryCache', call, now)
                      ELSE queryCache' = queryCache
       /\ \A r \in Slots :
             (requests[r] = Idle /\ requests'[r] # Idle
              /\ HasEntry(queryCache, requests'[r].text)) =>
                   /\ EntryAge(queryCache, requests'[r].text, now) >= CACHE_TTL
                   /\ "plan" \in requests'[r].did
      ]_vars

\* A call found an entry of its text that was exactly CACHE_TTL old,
\* executed its plan again, and its result is the entry now.
C24_Witness ==
    \E i, j \in Returned :
        /\ Repeats(i, j)
        /\ calls[i].result.success /\ ~calls[i].result.metadata.cacheHit
        /\ calls[j].startTime - calls[i].endTime = CACHE_TTL
        /\ Planned(calls[j])
        /\ calls[j].result.success /\ ~calls[j].result.metadata.cacheHit
        /\ j = Len(calls)
        /\ StoredAt(queryCache, calls[j], calls[j].endTime)

\* the location and radius the claim gives the request of rag_search, from
\* the features the spatial_filter step found and the first constraint
ExpectedLocation(filtered, firstConstraint) ==
    IF filtered # << >>
    THEN [location |-> Some(filtered[1].coordinates), radius |-> Some(50)]
    ELSE [location |-> Some(firstConstraint.geometry),
          radius |-> Some(IF "radius" \in DOMAIN firstConstraint.parameters
                             /\ firstConstraint.parameters.radius # 0
                          THEN firstConstraint.parameters.radius ELSE 50)]

\* C26: when the first spatial constraint of the parsed query is of type
\* point or radius, the request the rag_search step builds has a location:
\* the coordinates of the first feature the spatial_filter step found, if it
\* found one, and otherwise the geometry of the first constraint, with the
\* radius of the constraint, or 50 km when it has none.
C26_RagQueryLocated ==
    \A r \in InFlight :
        (/\ requests[r].ragQuery # None
         /\ ParsedOf[requests[r].text].spatialConstraints # << >>
         /\ ParsedOf[requests[r].text].spatialConstraints[1].type \in {"point", "radius"})
        => LET expected ==
                   ExpectedLocation(
                       IF "spatial_filter" \in DOMAIN requests[r].executedSteps
                       THEN requests[r].executedSteps["spatial_filter"]
                                .spatiallyFilteredFeatures
                       ELSE << >>,
                       ParsedOf[requests[r].text].spatialConstraints[1])
           IN /\ requests[r].ragQuery[1].location = expected.location
              /\ requests[r].ragQuery[1].radius = expected.radius

\* the call has run its spatial_filter step and nothing since
FilteredJustNow(request) ==
    /\ request.pc = "running"
    /\ request.started = <<"spatial_filter">>
    /\ "spatial_filter" \in DOMAIN request.executedSteps

\* C27: the output of the spatial_filter step is the union of what the index
\* returns for each constraint (a point as a radius query of 1 km, a radius
\* as a radius query, bounds as a bounding-box query), as a set: a feature
\* that several constraints of the request match is in
\* spatiallyFilteredFeatures once.
C27_SpatialFilterIsUnion ==
    \A r \in InFlight :
        FilteredJustNow(requests[r]) =>
            LET found == requests[r].executedSteps["spatial_filter"]
                             .spatiallyFilteredFeatures
                constraints == ParsedOf[requests[r].text].spatialConstraints
            IN /\ Range(found)
                    = UNION {Range(ConstraintFeatures(features, spatialGrid, constraint)) :
                                constraint \in Range(constraints)}
               /\ \A i, j \in 1..Len(found) : found[i].id = found[j].id => i = j

NoFeaturesToAnalyze == [analysis |-> [message |-> "No features found for analysis"]]
TooFewToCompare == [comparison |-> [message |-> "Need at least 2 features for comparison"]]

\* the placeholders in the result of a call that ran its plan to the end
Placeholders(call) ==
    LET data == call.result.data[1]
        intent == ParsedOf[call.text].intent.type
    IN /\ call.result.error = None
       /\ data.sources = << >> => data.answer = InsufficientAnswer
       /\ (intent = "analyze" /\ data.sources = << >>)
             => data.analysis = Some(NoFeaturesToAnalyze)
       /\ (intent = "compare" /\ Len(data.sources) < 2)
             => data.analysis = Some(TooFewToCompare)

\* the embeddings of the store that are not of the length the provider gives
Mismatched == {id \in DOMAIN embeddings : Len(embeddings[id]) # dimensions}

----------------------------------------------------------------------------
(* The functions that depend on their arguments alone, each applied to      *)
(* arguments drawn from a small set; lastOp holds the arguments and what    *)
(* the function returned.  A behaviour applies one function once.           *)

NationalParks == "Find national parks within 50km of Los Angeles"
NearBoston == "find parks near Boston"
ParserTexts == Queries \cup {NationalParks, NearBoston,
                            "find hospitals near 37.7749,-122.4194 within 20 km"}

Similarities == {-Scale, -3333, 0, 1, 5000, Scale}
Relevances == {0, 1, 2500, 5000, 9999, Scale}
SpatialWeights == {0, 1, storeSpatialWeight, 5000, Scale}

Vectors == [1..dimensions -> -2..2]
ZeroVector == [i \in 1..dimensions |-> 0]

\* QueryIntent["type"]
IntentTypes == {"search", "compare", "analyze", "describe", "find_nearby", "route",
                "change_detection"}

\* The parsed queries createExecutionPlan is applied to: what the parser gives
\* for the texts, with each intent in turn and with the first entities and
\* the first spatial constraints only.
PlannerInputs ==
    {[parsedQuery EXCEPT
         !.intent.type = intentType,
         !.entities = SubSeq(@, 1, Min({Len(@), entities})),
         !.spatialConstraints = SubSeq(@, 1, Min({Len(@), constraints}))] :
        parsedQuery \in {parseQuery(queryText) : queryText \in ParserTexts},
        intentType \in IntentTypes, entities \in 0..2, constraints \in 0..2}

\* texts for extractIntent: no keyword, one intent, several intents of
\* different and of equal scores, upper case
IntentTexts ==
    {"hello", "FIND Parks", "difference", "find a route", "changed trend",
     "compare lakes nearby", "analyze the analysis near here",
     "navigate the path around", "what is nearby", "Show Changes",
     "describe the difference versus the trend", "travel"}

\* the intent parseQuery extracts from a text
ExtractIntent(queryText) ==
    /\ lastOp' = [op |-> "extractIntent", queryText |-> queryText,
                  ret |-> extractIntent(trim(toLowerCase(queryText)))]
    /\ UNCHANGED <<indexVars, opCount, storeVars, engineVars>>

ParseQuery(queryText) ==
    /\ lastOp' = [op |-> "parseQuery", queryText |-> queryText,
                  ret |-> parseQuery(queryText)]
    /\ UNCHANGED <<indexVars, opCount, storeVars, engineVars>>

\* combineScores for one similarity and weight and two relevances
CombineScores(similarity, lower, higher, spatialWeight) ==
    /\ lastOp' = [op |-> "combineScores", similarity |-> similarity,
                  spatialWeight |-> spatialWeight,
                  spatialRelevance |-> <<lower, higher>>,
                  ret |-> <<combineScores(similarity, lower, spatialWeight),
                            combineScores(similarity, higher, spatialWeight)>>]
    /\ UNCHANGED <<indexVars, opCount, storeVars, engineVars>>

\* cosineSimilarity of two vectors, taken in both orders
CosineSimilarity(a, b) ==
    /\ lastOp' = [op |-> "cosineSimilarity", a |-> a, b |-> b,
                  ret |-> <<cosineSimilarity(a, b), cosineSimilarity(b, a)>>]
    /\ UNCHANGED <<indexVars, opCount, storeVars, engineVars>>

\* createExecutionPlan listing the steps of the plan last to first
CreateExecutionPlan_StepsReversed(parsedQuery) ==
    /\ lastOp' = [op |-> "createExecutionPlan", parsedQuery |-> parsedQuery,
                  ret |-> IF createExecutionPlan(parsedQuery).threw
                          THEN createExecutionPlan(parsedQuery)
                          ELSE Return([createExecutionPlan(parsedQuery).value EXCEPT
                                   !.steps = [k \in 1..Len(@) |-> @[Len(@) + 1 - k]]])]
    /\ UNCHANGED <<indexVars, opCount, storeVars, engineVars>>

CreateExecutionPlan(parsedQuery) ==
    /\ lastOp' = [op |-> "createExecutionPlan", parsedQuery |-> parsedQuery,
                  ret |-> createExecutionPlan(parsedQuery)]
    /\ UNCHANGED <<indexVars, opCount, storeVars, engineVars>>

NextFunctions ==
    /\ lastOp = NoOp
    /\ \/ \E queryText \in ParserTexts : ParseQuery(queryText)
       \/ \E queryText \in IntentTexts : ExtractIntent(queryText)
       \/ \E similarity \in Similarities, lower \in Relevances, higher \in Relevances,
             spatialWeight \in SpatialWeights :
               CombineScores(similarity, lower, higher, spatialWeight)
       \/ \E a \in Vectors, b \in Vectors : CosineSimilarity(a, b)
       \/ \E parsedQuery \in PlannerInputs : CreateExecutionPlan(parsedQuery)

SpecFunctions == InitIndex /\ [][NextFunctions]_vars

----------------------------------------------------------------------------
(* Claims about these functions, checked under SpecFunctions. *)

\* C15: parsing "Find national parks within 50km of Los Angeles" gives the
\* intent search, a feature_type entity of value park, a measurement entity
\* of 50 km, and a spatial constraint of type radius whose radius is 50.
C15_NationalParksScenario ==
    (lastOp.op = "parseQuery" /\ lastOp.queryText = NationalParks) =>
        /\ lastOp.ret.intent.type = "search"
        /\ \E i \in 1..Len(lastOp.ret.entities) :
              /\ lastOp.ret.entities[i].type = "feature_type"
              /\ lastOp.ret.entities[i].value = [featureType |-> "park"]
        /\ \E i \in 1..Len(lastOp.ret.entities) :
              /\ lastOp.ret.entities[i].type = "measurement"
              /\ lastOp.ret.entities[i].value = [distance |-> 50, unit |-> "km"]
        /\ \E i \in 1..Len(lastOp.ret.spatialConstraints) :
              /\ lastOp.ret.spatialConstraints[i].type = "radius"
              /\ lastOp.ret.spatialConstraints[i].parameters.radius = 50

\* C17: for one similarity and one spatialWeight above 0, the combined score
\* of the lower spatialRelevance is at most that of the higher one.
C17_CombinedScoreMonotone ==
    (/\ lastOp.op = "combineScores"
     /\ lastOp.spatialWeight > 0
     /\ lastOp.spatialRelevance[1] <= lastOp.spatialRelevance[2])
    => lastOp.ret[1] <= lastOp.ret[2]

\* combineScores gave a higher score to the higher of two relevances, for a
\* negative similarity and the store's default weight.
C17_Witness ==
    /\ lastOp.op = "combineScores"
    /\ lastOp.spatialWeight = storeSpatialWeight
    /\ lastOp.similarity < 0
    /\ lastOp.spatialRelevance[1] < lastOp.spatialRelevance[2]
    /\ lastOp.ret[1] < lastOp.ret[2]

StepsOfType(steps, type) == {k \in 1..Len(steps) : steps[k].type = type}

\* the steps of the type are one step if present and none otherwise, and that
\* step depends on rag_search
OneIff(steps, type, present) ==
    /\ Cardinality(StepsOfType(steps, type)) = IF present THEN 1 ELSE 0
    /\ \A k \in StepsOfType(steps, type) : steps[k].dependencies = <<"rag_search">>

\* C22: the plan of a parsed query holds exactly one rag_search step; a
\* spatial_filter step, in the first place, exactly when the query has a
\* spatial constraint, and rag_search depends on it exactly then; an analysis
\* step that depends on rag_search exactly when the intent is analyze or
\* compare; an aggregation step that depends on rag_search exactly when the
\* intent is search and there is more than one entity; and no other step.
C22_PlanShape ==
    lastOp.op = "createExecutionPlan" =>
        /\ ~lastOp.ret.threw
        /\ LET parsedQuery == lastOp.parsedQuery
               steps == lastOp.ret.value.steps
               spatial == Len(parsedQuery.spatialConstraints) >= 1
           IN /\ Cardinality(StepsOfType(steps, "rag_search")) = 1
              /\ StepsOfType(steps, "spatial_filter") = IF spatial THEN {1} ELSE {}
              /\ \A k \in StepsOfType(steps, "rag_search") :
                    steps[k].dependencies
                        = IF spatial THEN <<"spatial_filter">> ELSE << >>
              /\ OneIff(steps, "analysis",
                        parsedQuery.intent.type \in {"analyze", "compare"})
              /\ OneIff(steps, "aggregation",
                        parsedQuery.intent.type = "search"
                        /\ Len(parsedQuery.entities) > 1)
              /\ \A k \in 1..Len(steps) :
                    /\ steps[k].type \in {"spatial_filter", "rag_search", "analysis",
                                          "aggregation"}
                    /\ steps[k].id = steps[k].type

\* The plan of a search for two entities with a spatial constraint:
\* spatial_filter, rag_search, aggregation.
C22_Witness ==
    /\ lastOp.op = "createExecutionPlan"
    /\ lastOp.parsedQuery.intent.type = "search"
    /\ Len(lastOp.parsedQuery.entities) = 2
    /\ Len(lastOp.parsedQuery.spatialConstraints) = 1
    /\ [k \in 1..Len(lastOp.ret.value.steps) |-> lastOp.ret.value.steps[k].id]
          = <<"spatial_filter", "rag_search", "aggregation">>

\* the number of keywords of the k-th intent that the lowercased text contains
ScoreOfIntent(queryText, k) ==
    Cardinality({i \in 1..Len(INTENT_KEYWORDS[k].keywords) :
        includes(toLowerCase(queryText), INTENT_KEYWORDS[k].keywords[i])})

IntentOrder ==
    <<"search", "compare", "analyze", "describe", "find_nearby", "route",
      "change_detection">>

\* C32: the intent extracted from a text is one whose keyword score on the
\* lowercased text is the highest; of the intents with the highest score it
\* is the first in the order search, compare, analyze, describe,
\* find_nearby, route, change_detection; it is search when every score is 0.
C32_IntentClassification ==
    lastOp.op = "extractIntent" =>
        /\ [k \in 1..Len(INTENT_KEYWORDS) |-> INTENT_KEYWORDS[k].type] = IntentOrder
        /\ \E k \in 1..Len(IntentOrder) :
              /\ lastOp.ret.type = IntentOrder[k]
              /\ \A j \in 1..Len(IntentOrder) :
                    ScoreOfIntent(lastOp.queryText, j) <= ScoreOfIntent(lastOp.queryText, k)
              /\ \A j \in 1..(k - 1) :
                    ScoreOfIntent(lastOp.queryText, j) < ScoreOfIntent(lastOp.queryText, k)
        /\ (\A j \in 1..Len(IntentOrder) : ScoreOfIntent(lastOp.queryText, j) = 0)
              => lastOp.ret.type = "search"

\* "difference" is a keyword of compare and of change_detection and of no
\* other intent: the two score 1 each and compare, the earlier, was chosen.
C32_Witness ==
    /\ lastOp.op = "extractIntent"
    /\ lastOp.queryText = "difference"
    /\ ScoreOfIntent(lastOp.queryText, 2) = 1
    /\ ScoreOfIntent(lastOp.queryText, 7) = 1
    /\ lastOp.ret.type = "compare"

OfType(entities, type) == SelectSeq(entities, LAMBDA e : e.type = type)

SaysNear(queryText) ==
    \/ includes(queryText, "nearby")
    \/ includes(queryText, "around")
    \/ includes(queryText, "near")

\* C33: a text that has "nearby", "around" or "near" in it, mentions a
\* location, as a pair of coordinates or by name, and gives no distance is
\* parsed to a query that has a radius constraint of 10 km.
C33_DefaultRadius ==
    (/\ lastOp.op = "parseQuery"
     /\ SaysNear(lastOp.queryText)
     /\ OfType(lastOp.ret.entities, "location") # << >>
     /\ OfType(lastOp.ret.entities, "measurement") = << >>)
        => \E k \in 1..Len(lastOp.ret.spatialConstraints) :
              /\ lastOp.ret.spatialConstraints[k].type = "radius"
              /\ lastOp.ret.spatialConstraints[k].parameters.radius = 10
              /\ lastOp.ret.spatialConstraints[k].parameters.unit = "km"

----------------------------------------------------------------------------
(* executePlan on plans of every shape.  createExecutionPlan builds plans   *)
(* whose dependencies are met; here the executor is handed, in its place,   *)
(* the plans that can be made of the steps of the plan of one query, in any *)
(* order and with steps left out, and that plan with a join step put into   *)
(* it, as a test of executePlan would.                                      *)

PlannedQuery == CompareNearby
PlannedSteps == Range(PlanOf[PlannedQuery].value.steps)

\* the lists of n different steps
RECURSIVE StepLists(_)
StepLists(n) ==
    IF n = 0 THEN {<< >>}
    ELSE {Append(steps, step) : steps \in StepLists(n - 1), step \in PlannedSteps}

\* a step of the type join, which ExecutionStep allows and executeStep has no
\* case for
JoinStep == [id |-> "join", type |-> "join", operation |-> "join_results",
             parameters |-> [on |-> "id"], dependencies |-> <<"rag_search">>]

\* steps with step put after its first n elements
InsertedAt(steps, n, step) ==
    SubSeq(steps, 1, n) \o <<step>> \o SubSeq(steps, n + 1, Len(steps))

TestPlans ==
    {[PlanOf[PlannedQuery].value EXCEPT !.steps = steps] :
        steps \in {list \in UNION {StepLists(n) : n \in 0..Cardinality(PlannedSteps)} :
                      Cardinality(Range(list)) = Len(list)}
                  \cup {InsertedAt(PlanOf[PlannedQuery].value.steps, n, JoinStep) :
                           n \in 0..Len(PlanOf[PlannedQuery].value.steps)}}

\* executeQuery with plan for its execution plan
ExecuteQueryWithPlan(r, plan) ==
    /\ requests[r] = Idle
    /\ Len(calls) + Cardinality(InFlight) < MaxCalls
    /\ Starts(r, PlannedQuery, ParsedOf[PlannedQuery], CacheKeyOf[PlannedQuery],
              CachedFor(CacheKeyOf[PlannedQuery]), Return(plan))
    /\ UNCHANGED <<indexVars, lastOp, opCount, storeVars, queryCache,
                   confidenceThreshold, now>>

NextPlan ==
    \/ \E r \in EngineSlots, plan \in TestPlans : ExecuteQueryWithPlan(r, plan)
    \/ \E r \in EngineSlots : ExecuteStep(r)
    \/ \E r \in EngineSlots : EmbeddingReturns(r)
    \/ \E r \in EngineSlots : EmbeddingFails(r)
    \/ \E r \in EngineSlots : CompletePlan(r)

SpecPlan == Init /\ [][NextPlan]_vars

----------------------------------------------------------------------------
(* Claims about executePlan, checked under SpecPlan. *)

StepIds(plan) == [k \in 1..Len(plan.steps) |-> plan.steps[k].id]

\* started is the beginning of the plan's list of steps
InPlanOrder(started, plan) ==
    /\ Len(started) <= Len(plan.steps)
    /\ started = SubSeq(StepIds(plan), 1, Len(started))

\* the dependencies of step k of the plan are among the steps before it
DependenciesMet(plan, k) ==
    Range(plan.steps[k].dependencies) \subseteq {plan.steps[j].id : j \in 1..(k - 1)}

DependencyError(step) == Some("Dependencies not met for step " \o step.id)

\* C20: the steps of a plan start in the order of the plan, one at a time: a
\* step starts when the steps before it have a recorded result, its
\* dependencies among them.  A call that comes to a step with a dependency
\* that has no recorded result fails there with the error "Dependencies not
\* met", and starts neither that step nor a later one; a call that succeeds
\* started every step.
C20_StepsInPlanOrder ==
    /\ \A r \in InFlight :
          /\ InPlanOrder(requests[r].started, requests[r].plan)
          /\ \A k \in 1..Len(requests[r].started) :
                DependenciesMet(requests[r].plan, k)
          /\ Range(requests[r].started) \ DOMAIN requests[r].executedSteps
                = IF requests[r].pc = "embedding"
                  THEN {requests[r].started[Len(requests[r].started)]}
                  ELSE {}
    /\ \A i \in Returned :
          calls[i].plan # None /\ ~calls[i].result.metadata.cacheHit =>
            /\ InPlanOrder(calls[i].started, calls[i].plan[1])
            /\ \A k \in 1..Len(calls[i].started) : DependenciesMet(calls[i].plan[1], k)
            /\ calls[i].result.success =>
                  Len(calls[i].started) = Len(calls[i].plan[1].steps)
            /\ \A k \in 1..Len(calls[i].plan[1].steps) :
                  (/\ ~DependenciesMet(calls[i].plan[1], k)
                   /\ \A j \in 1..(k - 1) : DependenciesMet(calls[i].plan[1], j))
                  => /\ Len(calls[i].started) < k
                     /\ Len(calls[i].started) = k - 1 =>
                           calls[i].result.error
                               = DependencyError(calls[i].plan[1].steps[k])
                     /\ ~calls[i].result.success

\* A call ran the spatial_filter step, came to the analysis step before the
\* rag_search step it depends on, and failed there; rag_search, the step
\* after, did not start.
C20_Witness ==
    \E i \in Returned :
        /\ calls[i].plan # None
        /\ StepIds(calls[i].plan[1]) = <<"spatial_filter", "analysis", "rag_search">>
        /\ calls[i].started = <<"spatial_filter">>
        /\ calls[i].result.error = Some("Dependencies not met for step analysis")
        /\ ~calls[i].result.success

\* C23: when a step of a plan throws (a dependency without a result, a step
\* type executeStep has no case for, the provider's rejection in rag_search)
\* the call returns success = false, data = null, stepsExecuted = 0,
\* confidence = 0, cacheHit = false and an error string that is not empty,
\* whatever the steps before it returned; and the failure leaves the cache,
\* the store, the index and the threshold as they were, so that a later call
\* finds the engine as if the failed call had not been made.
C23_StepFailureIsolated ==
    [][\A call \in Returning :
          (Planned(call) /\ ~call.result.success) =>
              /\ call.result.data = None
              /\ call.result.metadata.stepsExecuted = 0
              /\ call.result.metadata.confidence = 0
              /\ call.result.metadata.cacheHit = FALSE
              /\ call.result.error # None
              /\ call.result.error[1] # ""
              /\ DOMAIN call.result = {"success", "data", "metadata", "error"}
              /\ UNCHANGED <<queryCache, storeVars, indexVars, confidenceThreshold>>
      ]_vars

\* A call ran spatial_filter and rag_search and failed at the join step; the
\* call after it, with the same text, executed its own plan and succeeded.
C23_Witness ==
    \E i, j \in Returned :
        /\ i < j
        /\ calls[i].started = <<"spatial_filter", "rag_search">>
        /\ calls[i].result = FailureResult("Unknown step type: join", 0)
        /\ calls[j].text = calls[i].text
        /\ calls[j].result.success
        /\ ~calls[j].result.metadata.cacheHit
        /\ Len(calls[j].started) = 3

----------------------------------------------------------------------------
(* Termination of a call.  The continuation of an async function runs once  *)
(* the promise it awaits settles, and the claim supposes that the provider  *)
(* settles its promise: a step that can be taken is taken, and a call that  *)
(* waits for its embedding gets it or gets the rejection.  The plans are    *)
(* those of SpecPlan, so that a call can fail at a dependency as well as in *)
(* the provider.                                                            *)

Fairness ==
    \A r \in EngineSlots :
        /\ WF_vars(ExecuteStep(r))
        /\ WF_vars(EmbeddingReturns(r) \/ EmbeddingFails(r))
        /\ WF_vars(CompletePlan(r))

SpecPlanFair == SpecPlan /\ Fairness

Completed(call) ==
    /\ call.result.success = TRUE
    /\ call.result.metadata.stepsExecuted = Len(call.plan[1].steps)
    /\ call.started = StepIds(call.plan[1])

Failed(call) ==
    /\ call.result.success = FALSE
    /\ Len(call.started) <= Len(call.plan[1].steps)

\* C21: a call that missed the cache goes from its plan through its steps to
\* Completed or to Failed.  Every call in flight returns; a returned call that
\* had a plan is either Completed, with success = true, stepsExecuted equal
\* to the number of steps of the plan and every step started, or Failed, with
\* success = false; and what a call did is settled when it returns: no step
\* is added to a returned call.
C21_RequestTerminates ==
    /\ [](\A i \in Returned : Planned(calls[i]) =>
              Completed(calls[i]) # Failed(calls[i]))
    /\ [][/\ Len(calls') >= Len(calls)
          /\ \A i \in Returned : calls'[i] = calls[i]]_vars
    /\ \A r \in EngineSlots : (requests[r] # Idle) ~> (requests[r] = Idle)

\* One call failed in its second step of three, the next one completed its
\* three steps.
C21_Witness ==
    \E i, j \in Returned :
        /\ Planned(calls[i]) /\ Failed(calls[i])
        /\ calls[i].started = <<"spatial_filter", "rag_search">>
        /\ Planned(calls[j]) /\ Completed(calls[j])
        /\ Len(calls[j].started) = 3

----------------------------------------------------------------------------
(* The result cache at its capacity.  The cache starts as MaxCacheEntries   *)
(* or a few less earlier requests left it: one entry for each of as many    *)
(* different texts, in the order in which they were first cached.  The      *)
(* actions are the two cache operations of executeQuery; lastOp holds the   *)
(* last one, and order, the keys in the cache by the time they came in.     *)

\* the key of the i-th earlier request, a search without entity
EarlierKey(i) ==
    [intent |-> "search", entities |-> Sorted(<< >>), spatial |-> 0, temporal |-> 0,
     text |-> "place " \o ToString(i)]

\* a result of executePlan with the answer given as the data
ResultSaying(answer) == QueryResult(TRUE, Some([answer |-> answer]), 0, 1, FALSE, 1500, None)

FilledCache(n) ==
    [i \in 1..n |-> [key |-> EarlierKey(i), result |-> ResultSaying("earlier"),
                     timestamp |-> 0]]

CacheSizes == {MaxCacheEntries - 2, MaxCacheEntries - 1, MaxCacheEntries}

\* the keys of the operations: the two oldest and the newest of the earlier
\* ones, and three that no earlier request had
OperationKeys ==
    {EarlierKey(i) : i \in {1, 2, MaxCacheEntries - 2,
                            MaxCacheEntries + 1, MaxCacheEntries + 2, MaxCacheEntries + 3}}

KeysOf(cache) == [i \in 1..Len(cache) |-> cache[i].key]
Without(keys, key) == SelectSeq(keys, LAMBDA k : k # key)

\* the keys by the time they came in, once key is cached and dropped is gone
OrderAfter(order, key, dropped) ==
    LET known == IF key \in Range(order) THEN order ELSE Append(order, key)
    IN IF dropped = None THEN known ELSE Without(known, dropped[1])

InitCache ==
    /\ features = << >>
    /\ spatialGrid = << >>
    /\ opCount = 0
    /\ documents = << >>
    /\ embeddings = << >>
    /\ spatialIndex = << >>
    /\ queryCache \in {FilledCache(n) : n \in CacheSizes}
    /\ lastOp = [op |-> "filled", order |-> KeysOf(queryCache)]
    /\ confidenceThreshold = DefaultConfidenceThreshold
    /\ now = 0
    /\ requests = [r \in Slots |-> Idle]
    /\ calls = << >>

\* cacheResult dropping the newest entry when the cache is over its capacity
CacheResult_DropsNewest(cacheKey) ==
    /\ opCount < MaxOps
    /\ LET after == cacheResult(queryCache, cacheKey, ResultSaying("new"), now)
           over == after.evicted # None
       IN /\ queryCache' = IF over
                           THEN SubSeq(<<queryCache[1]>> \o after.cache, 1, MaxCacheEntries)
                           ELSE after.cache
          /\ lastOp' = [op |-> "cacheResult", key |-> cacheKey,
                        evicted |-> IF over THEN Some(cacheKey) ELSE None,
                        order |-> OrderAfter(lastOp.order, cacheKey,
                                             IF over THEN Some(cacheKey) ELSE None)]
    /\ opCount' = opCount + 1
    /\ UNCHANGED <<indexVars, storeVars, confidenceThreshold, now, requests, calls>>

CacheResult(cacheKey) ==
    /\ opCount < MaxOps
    /\ LET after == cacheResult(queryCache, cacheKey, ResultSaying("new"), now)
       IN /\ queryCache' = after.cache
          /\ lastOp' = [op |-> "cacheResult", key |-> cacheKey,
                        evicted |-> after.evicted,
                        order |-> OrderAfter(lastOp.order, cacheKey, after.evicted)]
    /\ opCount' = opCount + 1
    /\ UNCHANGED <<indexVars, storeVars, confidenceThreshold, now, requests, calls>>

CheckCache(cacheKey) ==
    /\ opCount < MaxOps
    /\ lastOp' = [op |-> "checkCache", key |-> cacheKey,
                  ret |-> checkCache(queryCache, cacheKey, now),
                  order |-> lastOp.order]
    /\ opCount' = opCount + 1
    /\ UNCHANGED <<indexVars, storeVars, engineVars>>

NextCache ==
    \/ \E cacheKey \in OperationKeys : CacheResult(cacheKey)
    \/ \E cacheKey \in OperationKeys : CheckCache(cacheKey)

SpecCache == InitCache /\ [][NextCache]_vars

\* C25: the cache never holds more than MaxCacheEntries entries, and no key
\* twice.  Caching a result drops an entry exactly when the key is new and
\* the cache is full; it then drops one entry, the one whose key came in
\* first, which is not the one just cached, and the others stay in their
\* order.  A hit and the caching of a key that is in the cache leave the
\* keys and their order as they were.
C25_OldestInsertedDropped ==
    [][/\ Len(queryCache') <= MaxCacheEntries
       /\ Cardinality(Range(KeysOf(queryCache'))) = Len(queryCache')
       /\ KeysOf(queryCache') = lastOp'.order
       /\ lastOp'.op = "checkCache" => queryCache' = queryCache
       /\ lastOp'.op = "cacheResult" =>
             LET key == lastOp'.key
                 isNew == key \notin Range(lastOp.order)
                 full == Len(queryCache) = MaxCacheEntries
             IN /\ key \in Range(KeysOf(queryCache'))
                /\ CacheEntry(queryCache', key).result = ResultSaying("new")
                /\ IF isNew /\ full
                   THEN /\ lastOp'.evicted = Some(lastOp.order[1])
                        /\ lastOp'.evicted # Some(key)
                        /\ KeysOf(queryCache') = Append(Tail(KeysOf(queryCache)), key)
                   ELSE /\ lastOp'.evicted = None
                        /\ KeysOf(queryCache')
                              = IF isNew THEN Append(KeysOf(queryCache), key)
                                ELSE KeysOf(queryCache)
      ]_vars

\* A full cache got a new key and dropped the key that came in first.  The
\* key that came in second, cached again before that, is the first one now.
C25_Witness ==
    /\ lastOp.op = "cacheResult"
    /\ lastOp.key = EarlierKey(MaxCacheEntries + 1)
    /\ lastOp.evicted = Some(EarlierKey(1))
    /\ Len(queryCache) = MaxCacheEntries
    /\ queryCache[1].key = EarlierKey(2)
    /\ queryCache[1].result = ResultSaying("new")
    /\ queryCache[MaxCacheEntries].key = EarlierKey(MaxCacheEntries + 1)

----------------------------------------------------------------------------
(* GeographicVectorStore.search on its own.  The store starts empty or as   *)
(* earlier addDocument calls left it, with maxResults - 1 documents that    *)
(* have an embedding and no location; documents are added to it and it is   *)
(* searched.  lastOp holds the search that ran last: the query, the         *)
(* candidates before and after the filters, and the results.                *)

\* a vector of the provider's length
Pointing(n) == [i \in 1..dimensions |-> IF i = 1 THEN n ELSE 1]

Surveyed(id, type, location, timestamp, tags, confidence, embedding) ==
    [id |-> id, content |-> "",
     metadata |-> [type |-> type, location |-> location, timestamp |-> timestamp,
                   source |-> "survey", tags |-> tags, confidence |-> confidence],
     embedding |-> embedding,
     spatialContext |-> None]

EarlierDocument(i) ==
    Surveyed("earlier " \o ToString(i), "feature", None, 0, <<"park">>, None,
             Some(Pointing((i % 3) + 2)))

FilledDocuments(n) == [i \in 1..n |-> EarlierDocument(i)]

SearchDocuments ==
    {Surveyed("east", "feature", Some(AntiEast), 0, <<"park">>, Some(9000),
              Some(Pointing(1))),
     Surveyed("west", "report", Some(AntiWest), 10, <<"lake">>, Some(0),
              Some(Pointing(2))),
     Surveyed("bay", "feature", Some(SanFrancisco), 0, <<"park", "lake">>, Some(4000),
              Some(Pointing(3))),
     Surveyed("bay", "feature", Some(LosAngeles), 0, <<"park">>, None,
              Some(Pointing(3))),
     Surveyed("draft", "feature", None, 0, << >>, None, None)}

Filters(type, dateRange, tags, minConfidence) ==
    [type |-> type, dateRange |-> dateRange, tags |-> tags,
     minConfidence |-> minConfidence]

SearchFilters ==
    {None,
     Some(Filters(Some(<<"feature">>), None, None, None)),
     Some(Filters(None, Some([start |-> 5, end |-> 20]), None, None)),
     Some(Filters(None, None, Some(<<"lake", "river">>), None)),
     Some(Filters(None, None, None, Some(5000))),
     Some(Filters(Some(<<"feature", "report">>), Some([start |-> 0, end |-> 5]),
                  Some(<<"park">>), Some(5000)))}

SearchPlaces ==
    {[location |-> None, radius |-> None],
     [location |-> Some(AntiEast), radius |-> Some(20)],
     [location |-> Some(SanFrancisco), radius |-> None]}

\* spatialWeight given by a query, in ten-thousandths
QueryWeights == {Some(0), Some(7000), Some(Scale)}

SearchQueries ==
    {[text |-> FindParks, spatialWeight |-> None, location |-> place.location,
      radius |-> place.radius, filters |-> filters] :
        place \in SearchPlaces, filters \in SearchFilters}
    \cup
    {[text |-> FindParks, spatialWeight |-> weight, location |-> place.location,
      radius |-> place.radius, filters |-> None] :
        place \in SearchPlaces, weight \in QueryWeights}

InitSearch ==
    /\ features = << >>
    /\ spatialGrid = << >>
    /\ lastOp = NoOp
    /\ opCount = 0
    /\ documents \in {FilledDocuments(n) : n \in {0, maxResults - 1}}
    /\ embeddings = [i \in {documents[k].id : k \in 1..Len(documents)} |->
                        DocumentAt(documents, i).embedding[1]]
    /\ spatialIndex = << >>
    /\ queryCache = << >>
    /\ confidenceThreshold = DefaultConfidenceThreshold
    /\ now = 0
    /\ requests = [r \in Slots |-> Idle]
    /\ calls = << >>

Search(queryEmbedding, ragQuery) ==
    /\ opCount < MaxOps
    /\ lastOp' = [op |-> "search", ragQuery |-> ragQuery,
                  queryEmbedding |-> queryEmbedding,
                  selected |-> SelectedCandidates(StoreNow, ragQuery),
                  candidates |-> getCandidateDocuments(StoreNow, ragQuery),
                  ret |-> search(StoreNow, queryEmbedding, ragQuery)]
    /\ opCount' = opCount + 1
    /\ UNCHANGED <<indexVars, storeVars, engineVars>>

NextSearch ==
    \/ \E document \in SearchDocuments : AddDocument(document)
    \/ \E ragQuery \in SearchQueries : Search(Pointing(1), ragQuery)

SpecSearch == InitSearch /\ [][NextSearch]_vars

----------------------------------------------------------------------------
(* Claims about search, checked under SpecSearch. *)

Searched == lastOp.op = "search"

\* the stored documents that have a location within radiusKm of location
WithinRadius(location, radiusKm) ==
    {documents[i].id : i \in {k \in 1..Len(documents) :
        /\ documents[k].metadata.location # None
        /\ calculateDistance(location, documents[k].metadata.location[1])
              <= radiusKm * 1000}}

\* C28: the candidates of a search, before the filters: every stored
\* document when the query has no location; with a location, the stored
\* documents that have a location within the radius (100 km when the query
\* gives none), when there is one, and every stored document when there is
\* none; so that there is a candidate whenever the store holds a document.
C28_CandidateSelection ==
    Searched =>
        LET ragQuery == lastOp.ragQuery
            near == IF ragQuery.location = None THEN {}
                    ELSE WithinRadius(ragQuery.location[1],
                                      OrDefault(ragQuery.radius, 100))
        IN /\ Range(lastOp.selected)
                = IF ragQuery.location = None \/ near = {}
                  THEN DocumentIds(documents) ELSE near
           /\ documents # << >> => lastOp.selected # << >>

\* what the claim asks of a document for the filters of a query
MeetsFilters(document, filters) ==
    /\ filters.type # None => document.metadata.type \in Range(filters.type[1])
    /\ filters.dateRange # None =>
          /\ document.metadata.timestamp >= filters.dateRange[1].start
          /\ document.metadata.timestamp <= filters.dateRange[1].end
    /\ filters.tags # None =>
          Range(filters.tags[1]) \cap Range(document.metadata.tags) # {}
    /\ (filters.minConfidence # None /\ document.metadata.confidence # None) =>
          document.metadata.confidence[1] >= filters.minConfidence[1]

\* C29: the filters of a query are applied together: every document a search
\* returns meets every filter the query has (its type is among the types, its
\* timestamp in the date range, one of its tags among the tags, its
\* confidence not below minConfidence), and a candidate that meets them all
\* is a candidate after the filters.
C29_FiltersConjoined ==
    (Searched /\ lastOp.ragQuery.filters # None) =>
        /\ \A i \in 1..Len(lastOp.ret.value) :
              MeetsFilters(lastOp.ret.value[i].document, lastOp.ragQuery.filters[1])
        /\ \A id \in Range(lastOp.selected) :
              MeetsFilters(DocumentAt(documents, id), lastOp.ragQuery.filters[1])
                  => id \in Range(lastOp.candidates)

\* the candidates after the filters that have an embedding
Scored == {id \in Range(lastOp.candidates) : id \in DOMAIN embeddings}

C31_QueryWeightUsed ==
    (Searched /\ ~lastOp.ret.threw) =>
        \A i \in 1..Len(lastOp.ret.value) :
            lastOp.ret.value[i].combinedScore
                = combineScores(lastOp.ret.value[i].similarity,
                                lastOp.ret.value[i].spatialRelevance,
                                IF lastOp.ragQuery.spatialWeight # None
                                THEN lastOp.ragQuery.spatialWeight[1]
                                ELSE storeSpatialWeight)

----------------------------------------------------------------------------
(* MockEmbeddingProvider.generateBatchEmbeddings.  The call in slot r walks  *)
(* the texts in sub-batches: it starts a generateEmbedding request for each *)
(* text of a sub-batch, the requests complete one by one in any order, and  *)
(* when all have completed their embeddings are pushed onto the results.    *)

batchSize == 10

\* Bound on the number of texts of one call.
MaxTexts == 21

TextLists ==
    {[k \in 1..n |-> "text " \o ToString(k)] :
        n \in {0, 1, batchSize, batchSize + 1, MaxTexts}}

InBatch(r) == requests[r].pc \in {"loop", "awaiting"}

InitBatch ==
    /\ features = << >>
    /\ spatialGrid = << >>
    /\ lastOp = NoOp
    /\ opCount = 0
    /\ documents = << >>
    /\ embeddings = << >>
    /\ spatialIndex = << >>
    /\ queryCache = << >>
    /\ confidenceThreshold = DefaultConfidenceThreshold
    /\ now = 0
    /\ requests = [r \in Slots |-> Idle]
    /\ calls = << >>

GenerateBatchEmbeddings(r, texts) ==
    /\ requests[r] = Idle
    /\ lastOp = NoOp
    /\ requests' = [requests EXCEPT ![r] =
                       [pc |-> "loop", texts |-> texts, i |-> 0,
                        outstanding |-> {}, settled |-> << >>, results |-> << >>]]
    /\ UNCHANGED <<indexVars, lastOp, opCount, storeVars, queryCache,
                   confidenceThreshold, now, calls>>

\* the indices of the texts of texts.slice(i, i + batchSize)
SubBatch(request) ==
    (request.i + 1)..Min({request.i + batchSize, Len(request.texts)})

\* batch.map(...): a generateEmbedding request starts for each text of the
\* sub-batch
StartSubBatch(r) ==
    /\ requests[r].pc = "loop"
    /\ requests[r].i < Len(requests[r].texts)
    /\ requests' = [requests EXCEPT
                       ![r].pc = "awaiting",
                       ![r].outstanding = @ \cup SubBatch(requests[r]),
                       ![r].settled = << >>]
    /\ UNCHANGED <<indexVars, lastOp, opCount, storeVars, queryCache,
                   confidenceThreshold, now, calls>>

\* the generateEmbedding request for text k completes
EmbeddingGenerated(r, k) ==
    /\ InBatch(r)
    /\ k \in requests[r].outstanding
    /\ requests' = [requests EXCEPT
                       ![r].outstanding = @ \ {k},
                       ![r].settled =
                           Record(@, k, generateEmbedding(requests[r].texts[k]))]
    /\ UNCHANGED <<indexVars, lastOp, opCount, storeVars, queryCache,
                   confidenceThreshold, now, calls>>

\* the embeddings of the sub-batch in the order of its texts
BatchEmbeddings(request) ==
    [j \in 1..Cardinality(SubBatch(request)) |->
        IF request.i + j \in DOMAIN request.settled
        THEN request.settled[request.i + j]
        ELSE << >>]

\* the loop goes on as soon as one request of the sub-batch has completed
SubBatchSettles_OnFirst(r) ==
    /\ requests[r].pc = "awaiting"
    /\ DOMAIN requests[r].settled # {}
    /\ requests' = [requests EXCEPT
                       ![r].pc = "loop",
                       ![r].results = @ \o BatchEmbeddings(requests[r]),
                       ![r].i = @ + batchSize]
    /\ UNCHANGED <<indexVars, lastOp, opCount, storeVars, queryCache,
                   confidenceThreshold, now, calls>>

\* Promise.all resolves: every request of the sub-batch has completed
SubBatchSettles(r) ==
    /\ requests[r].pc = "awaiting"
    /\ requests[r].outstanding = {}
    /\ requests' = [requests EXCEPT
                       ![r].pc = "loop",
                       ![r].results = @ \o BatchEmbeddings(requests[r]),
                       ![r].i = @ + batchSize]
    /\ UNCHANGED <<indexVars, lastOp, opCount, storeVars, queryCache,
                   confidenceThreshold, now, calls>>

\* the loop has ended: return results
BatchReturns(r) ==
    /\ requests[r].pc = "loop"
    /\ requests[r].i >= Len(requests[r].texts)
    /\ lastOp' = [op |-> "generateBatchEmbeddings", texts |-> requests[r].texts,
                  ret |-> requests[r].results]
    /\ requests' = [requests EXCEPT ![r] = Idle]
    /\ UNCHANGED <<indexVars, opCount, storeVars, queryCache,
                   confidenceThreshold, now, calls>>

NextBatch ==
    \/ \E r \in EngineSlots, texts \in TextLists : GenerateBatchEmbeddings(r, texts)
    \/ \E r \in EngineSlots : StartSubBatch(r)
    \/ \E r \in EngineSlots, k \in 1..MaxTexts : EmbeddingGenerated(r, k)
    \/ \E r \in EngineSlots : SubBatchSettles(r)
    \/ \E r \in EngineSlots : BatchReturns(r)

SpecBatch == InitBatch /\ [][NextBatch]_vars

----------------------------------------------------------------------------
(* Claims about generateBatchEmbeddings, checked under SpecBatch. *)

\* C35: while generateBatchEmbeddings runs, at most batchSize = 10
\* generateEmbedding requests are outstanding; requests start only when none
\* is outstanding, so a sub-batch starts after the one before it has
\* completed; and the list returned has, at each place, the embedding of the
\* text at that place.
C35_BoundedOutstanding ==
    /\ [](/\ \A r \in EngineSlots :
                InBatch(r) => Cardinality(requests[r].outstanding) <= batchSize
          /\ lastOp.op = "generateBatchEmbeddings" =>
                /\ Len(lastOp.ret) = Len(lastOp.texts)
                /\ \A k \in 1..Len(lastOp.texts) :
                      lastOp.ret[k] = generateEmbedding(lastOp.texts[k]))
    /\ [][\A r \in EngineSlots :
            (/\ InBatch(r)
             /\ requests'[r].pc \in {"loop", "awaiting"}
             /\ requests'[r].outstanding \ requests[r].outstanding # {})
                => requests[r].outstanding = {}]_vars

\* A call with more than two sub-batches of texts has returned their
\* embeddings, which are not all the same.
C35_Witness ==
    /\ lastOp.op = "generateBatchEmbeddings"
    /\ Len(lastOp.texts) > 2 * batchSize
    /\ Len(lastOp.ret) = Len(lastOp.texts)
    /\ lastOp.ret[1] = generateEmbedding(lastOp.texts[1])
    /\ lastOp.ret[1] # lastOp.ret[2]

----------------------------------------------------------------------------
(* Queries and ingestion side by side.  Requests run in every slot; between *)
(* two steps of a request, and while a request waits for the provider,      *)
(* features are inserted into and removed from the Spatial Index and        *)
(* documents are added to and removed from the Vector Store.  insert and    *)
(* remove are synchronous and addDocument, removeDocument and search have   *)
(* no await in their bodies, so each is one step.                           *)

ConcurrentQuery == CompareNearby
ConcurrentFeatures == {Feature("f1", "point", SanFrancisco),
                       Feature("f1", "point", LosAngeles)}
ConcurrentDocuments ==
    {[Document("doc2", LocatedDocument.content, "feature", Some(SanFrancisco))
         EXCEPT !.embedding = Some(PresetEmbedding)],
     Document("doc2", LocatedDocument.content, "feature", Some(LosAngeles))}

NextConcurrent ==
    \/ \E r \in Slots : ProcessQuery(r, ConcurrentQuery)
    \/ \E r \in Slots : ExecuteStep(r)
    \/ \E r \in Slots : EmbeddingReturns(r)
    \/ \E r \in Slots : CompletePlan(r)
    \/ \E feature \in ConcurrentFeatures : Insert(feature)
    \/ \E feature \in ConcurrentFeatures : Remove(feature.id)
    \/ \E document \in ConcurrentDocuments : AddDocument(document)
    \/ \E document \in ConcurrentDocuments : RemoveDocument(document.id)

SpecConcurrent == InitIndex /\ [][NextConcurrent]_vars

----------------------------------------------------------------------------
(* Claims about queries that run beside ingestion, checked under            *)
(* SpecConcurrent.                                                          *)

InSomeBucket(grid, id) == \E k \in DOMAIN grid : id \in Range(grid[k])

\* a stored feature is in the bucket of every cell of its geometry; a stored
\* document that has an embedding has it in the embedding table, and one
\* that has a location is in the bucket of its cell
WritesWhole ==
    /\ \A id \in DOMAIN features :
          /\ features[id].id = id
          /\ \A k \in getGridKeys(features[id]) :
                k \in DOMAIN spatialGrid /\ id \in Range(spatialGrid[k])
    /\ \A i \in 1..Len(documents) :
          /\ documents[i].embedding # None =>
                /\ documents[i].id \in DOMAIN embeddings
                /\ embeddings[documents[i].id] = documents[i].embedding[1]
          /\ documents[i].metadata.location # None =>
                /\ storeGridKey(documents[i].metadata.location[1]) \in DOMAIN spatialIndex
                /\ documents[i].id
                      \in Range(spatialIndex[storeGridKey(documents[i].metadata.location[1])])

\* the request of slot r records the result of the step id in this step
ReadNow(r, id) ==
    /\ requests[r] # Idle
    /\ requests'[r] # Idle
    /\ id \notin DOMAIN requests[r].executedSteps
    /\ id \in DOMAIN requests'[r].executedSteps

----------------------------------------------------------------------------
(* Claims about the plans of createExecutionPlan, checked under             *)
(* SpecFunctions.                                                           *)

\* C37: in a plan that createExecutionPlan returns no two steps have the
\* same id and every dependency of a step is the id of a step before it, so
\* that the dependency check of executePlan passes at every step; the plan
\* has 1, 2 or 3 steps, and not both an analysis and an aggregation step.
C37_PlanWellFormed ==
    (lastOp.op = "createExecutionPlan" /\ ~lastOp.ret.threw) =>
        LET plan == lastOp.ret.value
        IN /\ \A j, k \in 1..Len(plan.steps) :
                 plan.steps[j].id = plan.steps[k].id => j = k
           /\ \A k \in 1..Len(plan.steps) : DependenciesMet(plan, k)
           /\ Len(plan.steps) \in 1..3
           /\ ~ /\ StepsOfType(plan.steps, "analysis") # {}
                /\ StepsOfType(plan.steps, "aggregation") # {}

\* The plan of a comparison with a spatial constraint: three steps, each
\* depending on the one before it.
C37_Witness ==
    /\ lastOp.op = "createExecutionPlan"
    /\ ~lastOp.ret.threw
    /\ StepIds(lastOp.ret.value) = <<"spatial_filter", "rag_search", "analysis">>
    /\ lastOp.ret.value.steps[2].dependencies = <<"spatial_filter">>
    /\ lastOp.ret.value.steps[3].dependencies = <<"rag_search">>

----------------------------------------------------------------------------
(* The embedding table of the Vector Store, checked under SpecStore. *)

\* the ids of the stored documents that have an embedding
Embedded == {documents[i].id : i \in {k \in 1..Len(documents) :
                                         documents[k].embedding # None}}

\* C38: whatever documents were added and removed, the embedding table has
\* an entry for an id exactly when the document stored under the id has an
\* embedding, and the entry is that embedding: no embedding of a document
\* that was replaced or removed stays behind.
C38_EmbeddingTableCurrent ==
    /\ DOMAIN embeddings = Embedded
    /\ \A id \in Embedded : embeddings[id] = DocumentAt(documents, id).embedding[1]

----------------------------------------------------------------------------
(* The executor's cache and the indexes under queries, checked under Spec. *)

\* C39: the cache is written only by a call whose plan ran to the end: when
\* the cache changes, a call returns that started every step of its plan
\* and succeeded, and the one entry that differs is the one of its key,
\* holding its result; a call that fails or that the confidence gate turns
\* away leaves the cache as it was and drops no entry.  So every entry of
\* the cache, and every result served from it, has success = true.
C39_OnlyCompletedPlansCached ==
    /\ [](/\ \A i \in 1..Len(queryCache) : queryCache[i].result.success
          /\ \A i \in Returned :
                calls[i].result.metadata.cacheHit => calls[i].result.success)
    /\ [][/\ queryCache' # queryCache =>
                \E call \in Returning :
                    /\ Planned(call)
                    /\ call.result.success
                    /\ call.started = StepIds(call.plan[1])
                    /\ "cacheWrite" \in call.did
                    /\ HasEntry(queryCache', call.text)
                    /\ CacheEntry(queryCache', CacheKeyOf[call.text].value).result.data
                          = call.result.data
                    /\ \A i \in 1..Len(queryCache) :
                          queryCache[i].key # CacheKeyOf[call.text].value
                              => queryCache[i] \in Range(queryCache')
          /\ \A call \in Returning :
                (~call.result.success \/ "cacheWrite" \notin call.did) =>
                    /\ queryCache' = queryCache
                    /\ call.evicted = None]_vars

\* A call was cached, and a later call with its text, made once the entry
\* had expired, failed in a step; the one entry of the cache is still the
\* first call's.
C39_Witness ==
    /\ Len(calls) = 2
    /\ calls[1].result.success
    /\ Planned(calls[1])
    /\ ~calls[2].result.success
    /\ Planned(calls[2])
    /\ calls[2].text = calls[1].text
    /\ calls[2].started # << >>
    /\ Len(queryCache) = 1
    /\ queryCache[1].result.success
    /\ queryCache[1].timestamp = calls[1].endTime

\* C40: a query reads the indexes and writes neither: in every step of a
\* processQuery call, from its start to its return, whether it succeeds,
\* fails, is turned away by the gate or is served from the cache, the
\* features and the grid of the Spatial Index and the documents, the
\* embeddings and the grid of the Vector Store stay as they are, and so does
\* the confidence threshold; the cache is all such a step may change.
C40_QueriesReadOnly ==
    [][((\E r \in Slots : requests'[r] # requests[r]) \/ calls' # calls)
          => UNCHANGED <<features, spatialGrid, documents, embeddings, spatialIndex,
                         confidenceThreshold>>]_vars

\* Over an index with a feature and a store with a document, a call found
\* the feature and a source and succeeded, and a second call was served its
\* result from the cache; the feature and the document are still there.
C40_Witness ==
    /\ Len(calls) = 2
    /\ calls[1].result.success
    /\ Planned(calls[1])
    /\ calls[1].result.data[1].spatialFiltering # None
    /\ calls[1].result.data[1].spatialFiltering[1].spatiallyFilteredFeatures # << >>
    /\ calls[1].result.data[1].sources # << >>
    /\ calls[2].result.metadata.cacheHit
    /\ DOMAIN features # {}
    /\ documents # << >>
    /\ DOMAIN embeddings = DocumentIds(documents)

====
